---- MODULE Spec2Model ----
(***************************************************************************)
(* A model of the multimodal-mean background model (mmm) and of the blob   *)
(* finder (rollers) of the chromakey repository.  Both libraries live in   *)
(* src/utils.c.  Heap objects are handles 1..n into a sequence of records; *)
(* NULL is 0 and linked lists are linked through the records' Next field,  *)
(* as in the C code.                                                       *)
(***************************************************************************)
EXTENDS Integers, Sequences, FiniteSets, TLC

NULL == 0

(***************************************************************************)
(* Bounds of the model.                                                    *)
(***************************************************************************)
\* number of pixel positions (Width * Height) of the frames fed to the BGM
NumSets == 1
\* no step is taken that would raise a cell's Count above MaxCount
MaxCount == 3
\* no step is taken that would make a set longer than MaxLen
MaxLen == 2
\* cell thresholds range over 0 .. MaxCth
MaxCth == 2

\* mmm.h: #define FREECELLSBLOCKSIZE 100
FREECELLSBLOCKSIZE == 100

\* density maps have at most MaxCells positions (Width * Height <= MaxCells)
MaxCells == 12
\* rollers.h: #define FREEBLOBSBLOCKSIZE 20
FREEBLOBSBLOCKSIZE == 20
\* P3-1.c: the blob threshold the driver passes to Blob_Finder
Bth == 20
\* densities just below and at the threshold
DensityVals == {Bth - 1, Bth}
Dims == {d \in (1 .. MaxCells) \X (1 .. MaxCells) : d[1] * d[2] <= MaxCells}

\* frames of the density scanners have at most MaxPix pixels
MaxPix == 8
\* the scanners run with WheelSize 1 .. MaxWheel
MaxWheel == 4
\* a blackened pixel and a pixel with one non-zero channel
DensityPixels == {[R |-> 0, G |-> 0, B |-> 0], [R |-> 0, G |-> 0, B |-> 255]}
DensityDims == {d \in (1 .. MaxPix) \X (1 .. MaxPix) : d[1] * d[2] <= MaxPix}

\* a run of the driver makes at most MaxCalls calls on the background model
MaxCalls == 5
\* and its cell threshold is one of 0 .. MaxThr
MaxThr == 3

\* the frame loop of the driver runs MaxFrames frames of at most MaxFrameCells
\* positions
MaxFrames == 2
MaxFrameCells == 6
\* utils.h: #define FATLINE 1
FATLINE == 1

\* the colours fed to the model (8-bit channels)
Pixels == { [R |-> 0, G |-> 0, B |-> 0],
            [R |-> 2, G |-> 1, B |-> 255],
            [R |-> 3, G |-> 1, B |-> 255] }
EpsilonVals == {0, 1}
CthVals == 0 .. MaxCth
Sets == 0 .. (NumSets - 1)
Frames == [Sets -> Pixels]

VARIABLES
    BGM,        \* Cell **BGM: slot -> head of the slot's cell list; <<>> before creation
    cell,       \* the Cell objects handed out so far: handle -> [R, G, B, Count, Next]
    nCells,     \* number of Cell objects obtained from malloc so far
    FreeCells,  \* Cell *FreeCells: head of the free cell list
    FB,         \* the frame buffer last processed (slot -> Pixel); <<>> if none
    Freed,      \* the value returned by the last Decimate_BGM call
    fault       \* TRUE once a division by zero has been executed (the process dies)

bgmVars == <<BGM, cell, nCells, FreeCells, FB, Freed, fault>>

VARIABLES
    Width,      \* int Width: columns of the density map
    Height,     \* int Height: rows of the density map
    InputMap,   \* the density map as the caller passed it (row-major, 0-based)
    DensityMap, \* int *DensityMap: Blob_Finder_Map overwrites it in place
    blob,       \* the Blob objects handed out so far: handle -> record
    nBlobs,     \* number of Blob objects obtained from malloc so far
    FreeBlobs,  \* Blob *FreeBlobs: head of the free blob list
    Blobs,      \* Blob *Blobs: head of the active list, the returned list at the end
    ColBlobs,   \* Blob *ColBlobs[Width]
    Y,          \* the row the scan is about to process
    pc,         \* "idle", "scan" (between two rows of a scan), "done" (returned)
                \* or "fault" (stopped on a reference to no object)
    AddrHi,     \* the bits of the Blob objects' addresses that an int cannot
                \* hold: 0 where a Blob pointer fits in an int
    created,    \* history: the handles returned by New_Blob, in call order
    fwd         \* history: Merges, the Merge_Blobs calls in call order, each
                \* [Blob1, Blob2, FP1, FP2] with the FP fields as the call found
                \* them; RowStubs, the positions that Add_Position added to a
                \* RowBlob that was forwarded

blobVars == <<Width, Height, InputMap, DensityMap, blob, nBlobs, FreeBlobs, Blobs,
              ColBlobs, Y, pc, AddrHi, created, fwd>>

VARIABLES
    DFB,        \* FrmBuf *FB of a density scan: [Width, Height, Frm], Frm row-major
    WheelSize,  \* int WheelSize
    DMap,       \* int *DensityMap as the scan leaves it; Unwritten where it wrote nothing
    DWrites,    \* history: how often the scan wrote each map position
    DStray,     \* history: the indices outside 0 .. Height - 1 at which the scan
                \* indexed its arrays Wheels[Height] and Sums[Height]
    dpc         \* "idle"; "horizontal", "vertical" or "area" (returned); the same
                \* with "fault" (returned after a write outside the map)

densVars == <<DFB, WheelSize, DMap, DWrites, DStray, dpc>>

VARIABLES
    Eps,        \* int MCDth of a run of the driver: the Epsilon of all its calls
    Thr,        \* int Cth of a run of the driver
    Calls       \* history: the calls of the run on the background model, in order:
                \* [op, Frm (the frame or pixels passed in), Result (slot -> cell)]

runVars == <<Eps, Thr, Calls>>

VARIABLES
    N,          \* int N of the driver's frame loop: the number of the frame at hand
    Marks       \* history: the byte indices of the frame buffer that Mark_Blob_CoM
                \* and Mark_Blob_BB wrote for the frame at hand

loopVars == <<N, Marks>>

vars == <<bgmVars, blobVars, densVars, runVars, loopVars>>

abs(x) == IF x < 0 THEN 0 - x ELSE x

\* C's integer division truncates toward zero (b > 0 wherever it is used)
CDiv(a, b) == IF a >= 0 THEN a \div b ELSE 0 - ((0 - a) \div b)

\* x >> 1 on a signed int: arithmetic shift, that is floor(x / 2)
Shr1(x) == x \div 2

(***************************************************************************)
(* The cell pool.  A memory m is a record [cell, nCells, FreeCells, BGM].  *)
(* nCells cells have been obtained from malloc, in blocks of               *)
(* FREECELLSBLOCKSIZE.  Allocate_Cell chains a new block in address order  *)
(* and pops from the front, so the cells of the newest block that were     *)
(* never handed out are the handles Len(cell)+1 .. nCells, still chained   *)
(* in address order; cell stores the records of the handles 1 .. Len(cell) *)
(* only, and NextOf reads the Next field of either kind of cell.           *)
(***************************************************************************)
NextOf(m, h) ==
    IF h <= Len(m.cell) THEN m.cell[h].Next
    ELSE IF h < m.nCells THEN h + 1 ELSE NULL

\* malloc of one block of cells, chained through Next
Malloc_Cells(m) ==
    [m EXCEPT !.nCells = @ + FREECELLSBLOCKSIZE, !.FreeCells = m.nCells + 1]

\* Allocate_Cell: refill when the free list is empty, then pop its head.
\* R, G, B, Count of a cell handed out for the first time are uninitialised
\* memory; every caller writes them before anything reads them.
Allocate_Cell(m) ==
    LET m1 == IF m.FreeCells = NULL THEN Malloc_Cells(m) ELSE m
        NewCell == m1.FreeCells
        next == NextOf(m1, NewCell)
        cells == IF NewCell > Len(m1.cell)
                 THEN Append(m1.cell, [R |-> 0, G |-> 0, B |-> 0, Count |-> 0,
                                       Next |-> next])
                 ELSE m1.cell
    IN  [m |-> [m1 EXCEPT !.cell = cells, !.FreeCells = next], NewCell |-> NewCell]

\* Free_Cell: push ThisCell on the free list, return its old Next
Free_Cell(m, ThisCell) ==
    [m |-> [m EXCEPT !.cell[ThisCell].Next = m.FreeCells, !.FreeCells = ThisCell],
     Next |-> m.cell[ThisCell].Next]

RECURSIVE Last_Cell(_, _)
Last_Cell(cells, ThisCell) ==
    IF cells[ThisCell].Next # NULL THEN Last_Cell(cells, cells[ThisCell].Next)
    ELSE ThisCell

(***************************************************************************)
(* Create_Initial_BGM: one cell per pixel, Count = 1.                      *)
(***************************************************************************)
RECURSIVE Create_Loop(_, _, _)
Create_Loop(m, Frm, I) ==
    IF I >= NumSets THEN m
    ELSE LET a == Allocate_Cell(m)
             c == [R |-> Frm[I].R, G |-> Frm[I].G, B |-> Frm[I].B,
                   Count |-> 1, Next |-> NULL]
             bgm == [i \in 0 .. I |-> IF i = I THEN a.NewCell ELSE m.BGM[i]]
         IN  Create_Loop([a.m EXCEPT !.cell[a.NewCell] = c, !.BGM = bgm], Frm, I + 1)

(***************************************************************************)
(* Ratio_Match_Pixel: first cell in list order whose mean is within        *)
(* Epsilon on all three channels; the pixel is added into it.  The first   *)
(* conjunct of the test divides by Count: Count = 0 is a division by zero. *)
(***************************************************************************)
Within(P, c, Epsilon) ==
    /\ abs(P.R - CDiv(c.R, c.Count)) <= Epsilon
    /\ abs(P.G - CDiv(c.G, c.Count)) <= Epsilon
    /\ abs(P.B - CDiv(c.B, c.Count)) <= Epsilon

\* mutant of Assimilate: the pixel is added to the sums, Count is not raised
Assimilate_NoCount(c, P) ==
    [c EXCEPT !.R = @ + P.R, !.G = @ + P.G, !.B = @ + P.B]

Assimilate(c, P) ==
    [c EXCEPT !.R = @ + P.R, !.G = @ + P.G, !.B = @ + P.B, !.Count = @ + 1]

\* mutant of Ratio_Match_Pixel: the scan goes on past a matching cell and
\* returns the last cell that matches
RECURSIVE Ratio_Match_Last(_, _, _, _)
Ratio_Match_Last(cells, P, ThisCell, Epsilon) ==
    IF ThisCell = NULL THEN [cell |-> cells, Result |-> NULL, fault |-> FALSE]
    ELSE IF cells[ThisCell].Count = 0
         THEN [cell |-> cells, Result |-> NULL, fault |-> TRUE]
    ELSE LET rest == Ratio_Match_Last(cells, P, cells[ThisCell].Next, Epsilon)
         IN  IF rest.fault \/ rest.Result # NULL THEN rest
             ELSE IF Within(P, cells[ThisCell], Epsilon)
                  THEN [cell |-> [cells EXCEPT ![ThisCell] = Assimilate(@, P)],
                        Result |-> ThisCell, fault |-> FALSE]
             ELSE rest

RECURSIVE Ratio_Match_Pixel(_, _, _, _)
Ratio_Match_Pixel(cells, P, ThisCell, Epsilon) ==
    IF ThisCell = NULL THEN [cell |-> cells, Result |-> NULL, fault |-> FALSE]
    ELSE IF cells[ThisCell].Count = 0
         THEN [cell |-> cells, Result |-> NULL, fault |-> TRUE]
    ELSE IF Within(P, cells[ThisCell], Epsilon)
         THEN [cell |-> [cells EXCEPT ![ThisCell] = Assimilate(@, P)],
               Result |-> ThisCell, fault |-> FALSE]
    ELSE Ratio_Match_Pixel(cells, P, cells[ThisCell].Next, Epsilon)

(***************************************************************************)
(* Add_Cell: append a new cell when the tail is proven, else recycle it.   *)
(***************************************************************************)
\* mutant of Add_Cell: a new cell is appended whatever the tail's Count
Add_Cell_Append(m, P, Set, Cth) ==
    LET LastCell == Last_Cell(m.cell, Set)
        a == Allocate_Cell(m)
        c == [R |-> P.R, G |-> P.G, B |-> P.B, Count |-> 1, Next |-> NULL]
    IN  [m |-> [a.m EXCEPT !.cell[a.NewCell] = c, !.cell[LastCell].Next = a.NewCell],
         Result |-> a.NewCell]

\* mutant of Add_Cell: the tail is recycled whatever its Count
Add_Cell_Recycle(m, P, Set, Cth) ==
    LET LastCell == Last_Cell(m.cell, Set)
    IN  [m |-> [m EXCEPT !.cell[LastCell] =
                  [@ EXCEPT !.R = P.R, !.G = P.G, !.B = P.B, !.Count = 1]],
         Result |-> LastCell]

\* mutant of Add_Cell: a recycled tail keeps the Count it had
Add_Cell_KeepCount(m, P, Set, Cth) ==
    LET LastCell == Last_Cell(m.cell, Set)
    IN  IF m.cell[LastCell].Count >= Cth
        THEN LET a == Allocate_Cell(m)
                 c == [R |-> P.R, G |-> P.G, B |-> P.B, Count |-> 1, Next |-> NULL]
             IN  [m |-> [a.m EXCEPT !.cell[a.NewCell] = c,
                                    !.cell[LastCell].Next = a.NewCell],
                  Result |-> a.NewCell]
        ELSE [m |-> [m EXCEPT !.cell[LastCell] =
                        [@ EXCEPT !.R = P.R, !.G = P.G, !.B = P.B]],
              Result |-> LastCell]

\* Cell *Add_Cell(Pixel *P, Cell *Set, int Cth)
Add_Cell(m, P, Set, Cth) ==
    LET LastCell == Last_Cell(m.cell, Set)
    IN  IF m.cell[LastCell].Count >= Cth
        THEN LET a == Allocate_Cell(m)
                 c == [R |-> P.R, G |-> P.G, B |-> P.B, Count |-> 1, Next |-> NULL]
             IN  [m |-> [a.m EXCEPT !.cell[a.NewCell] = c,
                                    !.cell[LastCell].Next = a.NewCell],
                  Result |-> a.NewCell]
        ELSE [m |-> [m EXCEPT !.cell[LastCell] =
                        [@ EXCEPT !.R = P.R, !.G = P.G, !.B = P.B, !.Count = 1]],
              Result |-> LastCell]

(***************************************************************************)
(* Predominant_Cell: the first cell with the largest Count, and the sum of *)
(* all Counts of the set.                                                  *)
(***************************************************************************)
RECURSIVE Predominant_Loop(_, _, _, _, _)
Predominant_Loop(cells, Cells, MaxCell, MaxCnt, TotalCount) ==
    IF Cells = NULL THEN [MaxCell |-> MaxCell, TotalCount |-> TotalCount]
    ELSE IF cells[Cells].Count > MaxCnt
         THEN Predominant_Loop(cells, cells[Cells].Next, Cells, cells[Cells].Count,
                               TotalCount + cells[Cells].Count)
    ELSE Predominant_Loop(cells, cells[Cells].Next, MaxCell, MaxCnt,
                          TotalCount + cells[Cells].Count)

Predominant_Cell(cells, Cells) ==
    Predominant_Loop(cells, Cells, Cells, cells[Cells].Count, 0)

(***************************************************************************)
(* Decimate_BGM.  TrailingNext is the address of the pointer that leads to *)
(* ThisCell: NULL stands for &BGM[I], a handle h for &(h->Next).           *)
(***************************************************************************)
\* mutant of Halve: every cell is halved, whatever its Count
Halve_All(c, Cth) ==
    [c EXCEPT !.R = Shr1(@), !.G = Shr1(@), !.B = Shr1(@), !.Count = Shr1(@)]

\* if (ThisCell->Count >= Cth) { R >>= 1; G >>= 1; B >>= 1; Count >>= 1; }
Halve(c, Cth) ==
    IF c.Count >= Cth
    THEN [c EXCEPT !.R = Shr1(@), !.G = Shr1(@), !.B = Shr1(@), !.Count = Shr1(@)]
    ELSE c

\* mutant of Evictable: the guard that spares a slot's only cell is dropped
Evictable_NoSoleGuard(m, I, ThisCell, Cth) ==
    m.cell[ThisCell].Count < Cth

Evictable(m, I, ThisCell, Cth) ==
    /\ m.cell[ThisCell].Count < Cth
    /\ (m.cell[ThisCell].Next # NULL \/ ThisCell # m.BGM[I])

\* mutant of Splice: the evicted cell is not unlinked from its set
Splice_NoUnlink(m, I, TrailingNext, to) == m

Splice(m, I, TrailingNext, to) ==
    IF TrailingNext = NULL THEN [m EXCEPT !.BGM[I] = to]
    ELSE [m EXCEPT !.cell[TrailingNext].Next = to]

RECURSIVE Decimate_Set(_, _, _, _, _)
Decimate_Set(m, I, ThisCell, TrailingNext, Cth) ==
    IF ThisCell = NULL THEN m
    ELSE LET m1 == [m EXCEPT !.cell[ThisCell] = Halve(@, Cth)]
         IN  IF Evictable(m1, I, ThisCell, Cth)
             THEN LET m2 == Splice(m1, I, TrailingNext, m1.cell[ThisCell].Next)
                      f  == Free_Cell(m2, ThisCell)
                  IN  Decimate_Set([f.m EXCEPT !.Freed = @ + 1], I, f.Next,
                                   TrailingNext, Cth)
             ELSE Decimate_Set(m1, I, m1.cell[ThisCell].Next, ThisCell, Cth)

RECURSIVE Decimate_Loop(_, _, _)
Decimate_Loop(m, I, Cth) ==
    IF I >= NumSets THEN m
    ELSE Decimate_Loop(Decimate_Set(m, I, m.BGM[I], NULL, Cth), I + 1, Cth)

(***************************************************************************)
(* The frame drivers.  A run r is [m, Frm, fault]; a fault (division by     *)
(* zero) stops the loop where it happens.                                  *)
(***************************************************************************)
Black == [R |-> 0, G |-> 0, B |-> 0]

FG_Pixel(m, Frm, I, Epsilon, Cth) ==
    LET r == Ratio_Match_Pixel(m.cell, Frm[I], m.BGM[I], Epsilon)
    IN  IF r.fault THEN [m |-> m, Frm |-> Frm, fault |-> TRUE]
        ELSE IF r.Result = NULL
             THEN [m |-> Add_Cell(m, Frm[I], m.BGM[I], Cth).m, Frm |-> Frm,
                   fault |-> FALSE]
        ELSE IF r.cell[r.Result].Count >= Cth
             THEN [m |-> [m EXCEPT !.cell = r.cell],
                   Frm |-> [Frm EXCEPT ![I] = Black], fault |-> FALSE]
        ELSE [m |-> [m EXCEPT !.cell = r.cell], Frm |-> Frm, fault |-> FALSE]

RECURSIVE FG_Loop(_, _, _, _)
FG_Loop(r, I, Epsilon, Cth) ==
    IF I >= NumSets \/ r.fault THEN r
    ELSE FG_Loop(FG_Pixel(r.m, r.Frm, I, Epsilon, Cth), I + 1, Epsilon, Cth)

BG_Pixel(m, Frm, I, Epsilon, Cth) ==
    LET r  == Ratio_Match_Pixel(m.cell, Frm[I], m.BGM[I], Epsilon)
        m1 == IF r.Result = NULL THEN Add_Cell(m, Frm[I], m.BGM[I], Cth).m
              ELSE [m EXCEPT !.cell = r.cell]
        Pred == m1.cell[Predominant_Cell(m1.cell, m1.BGM[I]).MaxCell]
    IN  IF r.fault THEN [m |-> m, Frm |-> Frm, fault |-> TRUE]
        ELSE IF Pred.Count = 0 THEN [m |-> m1, Frm |-> Frm, fault |-> TRUE]
        ELSE [m |-> m1,
              Frm |-> [Frm EXCEPT ![I] = [R |-> CDiv(Pred.R, Pred.Count),
                                          G |-> CDiv(Pred.G, Pred.Count),
                                          B |-> CDiv(Pred.B, Pred.Count)]],
              fault |-> FALSE]

RECURSIVE BG_Loop(_, _, _, _)
BG_Loop(r, I, Epsilon, Cth) ==
    IF I >= NumSets \/ r.fault THEN r
    ELSE BG_Loop(BG_Pixel(r.m, r.Frm, I, Epsilon, Cth), I + 1, Epsilon, Cth)

(***************************************************************************)
(* State of the background model and its actions.                          *)
(***************************************************************************)
Mem == [cell |-> cell, nCells |-> nCells, FreeCells |-> FreeCells, BGM |-> BGM]

\* the cells of the list that starts at h, in list order (fuel bounds the
\* walk); a never-handed-out cell h is followed by h+1 .. nCells
RECURSIVE Chain(_, _, _)
Chain(m, h, fuel) ==
    IF h = NULL \/ fuel = 0 THEN <<>>
    ELSE IF h > Len(m.cell) THEN [i \in 1 .. (m.nCells - h + 1) |-> h + i - 1]
    ELSE <<h>> \o Chain(m, NextOf(m, h), fuel - 1)

SetOf(m, I) == Chain(m, m.BGM[I], m.nCells)
Range(s) == {s[i] : i \in DOMAIN s}
LiveCells(m) == UNION {Range(SetOf(m, I)) : I \in DOMAIN m.BGM}

\* the bounds of the model: no Count above MaxCount, no set longer than MaxLen
WithinBounds(m) ==
    /\ \A I \in DOMAIN m.BGM : Len(SetOf(m, I)) <= MaxLen
    /\ \A h \in LiveCells(m) : m.cell[h].Count <= MaxCount

Created == DOMAIN BGM = Sets

\* the blob finder's state while only the background model runs
IdleBlob ==
    /\ Width = 0 /\ Height = 0
    /\ InputMap = <<>> /\ DensityMap = <<>>
    /\ blob = <<>> /\ nBlobs = 0 /\ FreeBlobs = NULL /\ Blobs = NULL
    /\ ColBlobs = <<>> /\ Y = 0 /\ pc = "idle" /\ AddrHi = 0 /\ created = <<>>
    /\ fwd = [Merges |-> <<>>, RowStubs |-> {}]

\* the background model before Create_Initial_BGM
IdleBGM ==
    /\ BGM = <<>>
    /\ cell = <<>>
    /\ nCells = 0
    /\ FreeCells = NULL
    /\ FB = <<>>
    /\ Freed = 0
    /\ fault = FALSE

\* the density scanners before a call
IdleDensity ==
    /\ DFB = <<>> /\ WheelSize = 0 /\ DMap = <<>> /\ DWrites = <<>> /\ DStray = {}
    /\ dpc = "idle"

\* no run of the driver
IdleRun == Eps = 0 /\ Thr = 0 /\ Calls = <<>>

\* the frame loop before its first frame
IdleLoop == N = 1 /\ Marks = {}

InitBGM == IdleBGM /\ IdleBlob /\ IdleDensity /\ IdleRun /\ IdleLoop

Create_Initial_BGM ==
    /\ ~Created
    /\ \E Frm \in Frames :
         LET m == Create_Loop(Mem, Frm, 0)
         IN  /\ BGM' = m.BGM
             /\ cell' = m.cell
             /\ nCells' = m.nCells
             /\ FreeCells' = m.FreeCells
             /\ FB' = Frm
    /\ UNCHANGED <<Freed, fault>>
    /\ UNCHANGED <<blobVars, densVars, runVars, loopVars>>

Commit(r) ==
    /\ WithinBounds(r.m)
    /\ BGM' = r.m.BGM
    /\ cell' = r.m.cell
    /\ nCells' = r.m.nCells
    /\ FreeCells' = r.m.FreeCells
    /\ FB' = r.Frm
    /\ fault' = r.fault
    /\ UNCHANGED Freed
    /\ UNCHANGED <<blobVars, densVars, runVars, loopVars>>

Process_Frame_FG ==
    /\ Created /\ ~fault
    /\ \E Frm \in Frames, Epsilon \in EpsilonVals, Cth \in CthVals :
         Commit(FG_Loop([m |-> Mem, Frm |-> Frm, fault |-> FALSE], 0, Epsilon, Cth))

Process_Frame_BG ==
    /\ Created /\ ~fault
    /\ \E Frm \in Frames, Epsilon \in EpsilonVals, Cth \in CthVals :
         Commit(BG_Loop([m |-> Mem, Frm |-> Frm, fault |-> FALSE], 0, Epsilon, Cth))

\* a library call of Ratio_Match_Pixel on one set
Match_Step ==
    /\ Created /\ ~fault
    /\ \E I \in Sets, P \in Pixels, Epsilon \in EpsilonVals :
         LET r == Ratio_Match_Pixel(cell, P, BGM[I], Epsilon)
         IN  Commit([m |-> [Mem EXCEPT !.cell = r.cell], Frm |-> FB, fault |-> r.fault])

\* a library call of Add_Cell on one set
Add_Step ==
    /\ Created /\ ~fault
    /\ \E I \in Sets, P \in Pixels, Cth \in CthVals :
         Commit([m |-> Add_Cell(Mem, P, BGM[I], Cth).m, Frm |-> FB, fault |-> FALSE])

Decimate_BGM ==
    /\ Created /\ ~fault
    /\ \E Cth \in CthVals :
         LET m == Decimate_Loop([cell |-> cell, nCells |-> nCells,
                                 FreeCells |-> FreeCells, BGM |-> BGM,
                                 Freed |-> 0], 0, Cth)
         IN  /\ BGM' = m.BGM
             /\ cell' = m.cell
             /\ nCells' = m.nCells
             /\ FreeCells' = m.FreeCells
             /\ Freed' = m.Freed
    /\ UNCHANGED <<FB, fault>>
    /\ UNCHANGED <<blobVars, densVars, runVars, loopVars>>

NextBGM ==
    \/ Create_Initial_BGM
    \/ Process_Frame_FG
    \/ Process_Frame_BG
    \/ Match_Step
    \/ Add_Step
    \/ Decimate_BGM

SpecBGM == InitBGM /\ [][NextBGM]_vars

(***************************************************************************)
(* The blob finder (rollers.c).  Blob objects live in a pool of handles    *)
(* 1 .. nBlobs; handle NULL is the null pointer.  A scan works on a record *)
(* s holding the pool (blob, nBlobs, FreeBlobs), the active list head      *)
(* Blobs, the locals RowBlob and ColBlobs, the map and the call history.   *)
(* Blobs beyond Len(s.blob) were malloc'ed but never handed out: they are  *)
(* still chained in address order, as the loop in New_Blob left them.      *)
(***************************************************************************)
NextBlobOf(s, h) ==
    IF h <= Len(s.blob) THEN s.blob[h].Next
    ELSE IF h < s.nBlobs THEN h + 1 ELSE NULL

\* New_Blob: refill the free list when it is empty, pop its head, initialise it
New_Blob(s, X0, Y0, ID) ==
    LET s1 == IF s.FreeBlobs = NULL
              THEN [s EXCEPT !.nBlobs = @ + FREEBLOBSBLOCKSIZE, !.FreeBlobs = s.nBlobs + 1]
              ELSE s
        NewBlob == s1.FreeBlobs
        rec == [ID |-> ID, Xmin |-> 0, Xmax |-> 0, Ymin |-> 0, Ymax |-> 0,
                Xsum |-> 0, Ysum |-> 0, Count |-> 0, Xreg |-> X0, Yreg |-> Y0,
                Expire |-> -1, Next |-> NULL, FP |-> NULL]
    IN  [ s |-> [s1 EXCEPT !.FreeBlobs = NextBlobOf(s1, NewBlob),
                           !.blob = IF NewBlob > Len(s1.blob)
                                    THEN Append(s1.blob, rec)
                                    ELSE [s1.blob EXCEPT ![NewBlob] = rec],
                           !.created = Append(@, NewBlob)],
          NewBlob |-> NewBlob ]

\* Number_Blobs: IDs from 1 for the blobs of the list that are not forwarded
RECURSIVE Number_Blobs(_, _, _)
Number_Blobs(blobs, ThisBlob, ID) ==
    IF ThisBlob = NULL THEN blobs
    ELSE IF blobs[ThisBlob].FP = NULL
         THEN Number_Blobs([blobs EXCEPT ![ThisBlob].ID = ID], blobs[ThisBlob].Next, ID + 1)
         ELSE Number_Blobs(blobs, blobs[ThisBlob].Next, ID)

RECURSIVE Reduce_FP(_, _)
Reduce_FP(blobs, ThisBlob) ==
    IF blobs[ThisBlob].FP # NULL THEN Reduce_FP(blobs, blobs[ThisBlob].FP) ELSE ThisBlob

\* the test that moves Blob1's registration point into Blob2
RegBefore(b1, b2) ==
    b1.Yreg < b2.Yreg \/ (b1.Yreg = b2.Yreg /\ b1.Xreg < b2.Yreg)

\* Blob2 after a merge that leaves the coordinate sums alone
Absorb_NoSums(b1, b2) ==
    [b2 EXCEPT !.Xmin = IF b1.Xmin < @ THEN b1.Xmin ELSE @,
               !.Ymin = IF b1.Ymin < @ THEN b1.Ymin ELSE @,
               !.Xmax = IF b1.Xmax > @ THEN b1.Xmax ELSE @,
               !.Ymax = IF b1.Ymax > @ THEN b1.Ymax ELSE @,
               !.Xreg = IF RegBefore(b1, b2) THEN b1.Xreg ELSE @,
               !.Yreg = IF RegBefore(b1, b2) THEN b1.Yreg ELSE @,
               !.Count = @ + b1.Count]

\* what Blob2 holds after it has assumed Blob1's positions
Absorb_NoCount(b1, b2) ==
    [b2 EXCEPT !.Xmin = IF b1.Xmin < @ THEN b1.Xmin ELSE @,
               !.Ymin = IF b1.Ymin < @ THEN b1.Ymin ELSE @,
               !.Xmax = IF b1.Xmax > @ THEN b1.Xmax ELSE @,
               !.Ymax = IF b1.Ymax > @ THEN b1.Ymax ELSE @,
               !.Xreg = IF RegBefore(b1, b2) THEN b1.Xreg ELSE @,
               !.Yreg = IF RegBefore(b1, b2) THEN b1.Yreg ELSE @,
               !.Xsum = @ + b1.Xsum,
               !.Ysum = @ + b1.Ysum]

Absorb(b1, b2) ==
    [b2 EXCEPT !.Xmin = IF b1.Xmin < @ THEN b1.Xmin ELSE @,
               !.Ymin = IF b1.Ymin < @ THEN b1.Ymin ELSE @,
               !.Xmax = IF b1.Xmax > @ THEN b1.Xmax ELSE @,
               !.Ymax = IF b1.Ymax > @ THEN b1.Ymax ELSE @,
               !.Xreg = IF RegBefore(b1, b2) THEN b1.Xreg ELSE @,
               !.Yreg = IF RegBefore(b1, b2) THEN b1.Yreg ELSE @,
               !.Xsum = @ + b1.Xsum,
               !.Ysum = @ + b1.Ysum,
               !.Count = @ + b1.Count]

\* mutant of Merge_Blobs: the test Blob1 != Blob2 is dropped
Merge_Blobs_Self(blobs, Blob1, Blob2, Expire) ==
    [blobs EXCEPT ![Blob2] = Absorb(blobs[Blob1], blobs[Blob2]),
                  ![Blob1].FP = Blob2,
                  ![Blob1].Expire = Expire]

\* void Merge_Blobs(Blob *Blob1, Blob *Blob2, int Expire)
Merge_Blobs(blobs, Blob1, Blob2, Expire) ==
    IF Blob1 # Blob2
    THEN [blobs EXCEPT ![Blob2] = Absorb(blobs[Blob1], blobs[Blob2]),
                       ![Blob1].FP = Blob2,
                       ![Blob1].Expire = Expire]
    ELSE blobs

Add_Position_CountOnly(b, X0, Y0) ==
    [b EXCEPT !.Xsum = @ + X0, !.Ysum = @ + Y0, !.Count = @ + 1]

Add_Position(b, X0, Y0) ==
    LET b1 == IF b.Count = 0
              THEN [b EXCEPT !.Xmin = X0, !.Xmax = X0, !.Ymin = Y0, !.Ymax = Y0]
              ELSE [b EXCEPT !.Xmin = IF X0 < @ THEN X0 ELSE @,
                             !.Ymin = IF Y0 < @ THEN Y0 ELSE @,
                             !.Xmax = IF X0 > @ THEN X0 ELSE @,
                             !.Ymax = IF Y0 > @ THEN Y0 ELSE @]
    IN  [b1 EXCEPT !.Xsum = @ + X0, !.Ysum = @ + Y0, !.Count = @ + 1]

\* the splice and push of both reapers; Trail = NULL stands for &Head
Reap_One(s, ThisBlob, Trail) ==
    LET nxt == s.blob[ThisBlob].Next
        s1 == IF Trail = NULL THEN [s EXCEPT !.Blobs = nxt]
                              ELSE [s EXCEPT !.blob[Trail].Next = nxt]
    IN  [s1 EXCEPT !.blob[ThisBlob].Next = s1.FreeBlobs, !.FreeBlobs = ThisBlob]

RECURSIVE Reap_Expired_Walk(_, _, _, _)
Reap_Expired_Walk(s, ThisBlob, Trail, Now) ==
    IF ThisBlob = NULL THEN s
    ELSE IF Now = s.blob[ThisBlob].Expire
         THEN Reap_Expired_Walk(Reap_One(s, ThisBlob, Trail), s.blob[ThisBlob].Next, Trail, Now)
         ELSE Reap_Expired_Walk(s, s.blob[ThisBlob].Next, ThisBlob, Now)

Reap_Expired_Blobs(s, Now) == Reap_Expired_Walk(s, s.Blobs, NULL, Now)

RECURSIVE Reap_FP_Walk(_, _, _)
Reap_FP_Walk(s, ThisBlob, Trail) ==
    IF ThisBlob = NULL THEN s
    ELSE IF s.blob[ThisBlob].FP # NULL
         THEN Reap_FP_Walk(Reap_One(s, ThisBlob, Trail), s.blob[ThisBlob].Next, Trail)
         ELSE Reap_FP_Walk(s, s.blob[ThisBlob].Next, ThisBlob)

Reap_FP_Blobs_None(s) == s

Reap_FP_Blobs(s) == Reap_FP_Walk(s, s.Blobs, NULL)

\* A Blob pointer is a handle h; its address is AddrHi above an int's width
\* and h within it.  (int) RowBlob keeps the part that fits in an int.
PtrToInt(hi, h) == h

\* (Blob *) DensityMap[I]: the int widened to a pointer; it is the address of
\* the blob it was taken from only where nothing was cut off
IntToPtr(hi, i) == [valid |-> hi = 0, h |-> i]

\* Mark_Blob_ID_Map: a non-zero position holds a blob pointer; it becomes the
\* ID of the blob the pointer reduces to.  wild is what the read of an ID
\* through a pointer to no blob yields.
Mark_Blob_ID_Map(blobs, Map, NumPos, hi, wild) ==
    [I \in DOMAIN Map |->
        IF I < NumPos /\ Map[I] # 0
        THEN LET ThisBlob == IntToPtr(hi, Map[I])
             IN  IF ThisBlob.valid THEN blobs[Reduce_FP(blobs, ThisBlob.h)].ID ELSE wild
        ELSE Map[I]]

\* the expiration date a merge gives: Y+1 in Blob_Finder, 0 in Blob_Finder_Map
ExpireAt_SameRow(Y0, map) == IF map THEN 0 ELSE Y0

ExpireAt(Y0, map) == IF map THEN 0 ELSE Y0 + 1

BlobWorthy_Strict(d) == d > Bth

BlobWorthy(d) == d >= Bth

\* the body of the X loop of Blob_Finder (map = FALSE) and Blob_Finder_Map
\* (map = TRUE) at position (X0, Y0)
Pixel_Step(s, X0, Y0, map) ==
    LET I == Y0 * Width + X0
        c0 == s.ColBlobs[X0]
        Col == IF c0 # NULL /\ s.blob[c0].FP # NULL THEN Reduce_FP(s.blob, c0) ELSE c0
    IN  IF BlobWorthy(s.DensityMap[I])
        THEN LET s1 == IF s.RowBlob # NULL /\ Col # NULL
                       THEN [s EXCEPT !.blob = Merge_Blobs(@, Col, s.RowBlob, ExpireAt(Y0, map)),
                                      !.fwd.Merges = Append(@,
                                          [Blob1 |-> Col, Blob2 |-> s.RowBlob,
                                           FP1 |-> s.blob[Col].FP,
                                           FP2 |-> s.blob[s.RowBlob].FP])]
                       ELSE IF Col # NULL
                       THEN [s EXCEPT !.RowBlob = Col]
                       ELSE IF s.RowBlob = NULL
                       THEN LET n == New_Blob(s, X0, Y0, 0)
                            IN  [n.s EXCEPT !.RowBlob = n.NewBlob,
                                            !.blob[n.NewBlob].Next = s.Blobs,
                                            !.Blobs = n.NewBlob]
                       ELSE s
             IN  [s1 EXCEPT !.blob[s1.RowBlob] = Add_Position(@, X0, Y0),
                            !.ColBlobs[X0] = s1.RowBlob,
                            !.fwd.RowStubs = IF s1.blob[s1.RowBlob].FP # NULL
                                             THEN @ \cup {I} ELSE @,
                            !.DensityMap[I] = IF map THEN PtrToInt(AddrHi, s1.RowBlob) ELSE @]
        ELSE [s EXCEPT !.RowBlob = NULL,
                       !.ColBlobs[X0] = NULL,
                       !.DensityMap[I] = IF map THEN 0 ELSE @]

RECURSIVE Row_Loop(_, _, _, _)
Row_Loop(s, X0, Y0, map) ==
    IF X0 >= Width THEN s ELSE Row_Loop(Pixel_Step(s, X0, Y0, map), X0 + 1, Y0, map)

\* the scan record of the current state, RowBlob cleared as at the top of a row
Scan == [blob |-> blob, nBlobs |-> nBlobs, FreeBlobs |-> FreeBlobs, Blobs |-> Blobs,
         RowBlob |-> NULL, ColBlobs |-> ColBlobs, DensityMap |-> DensityMap,
         created |-> created, fwd |-> fwd]

Store(s) ==
    /\ blob' = s.blob
    /\ nBlobs' = s.nBlobs
    /\ FreeBlobs' = s.FreeBlobs
    /\ Blobs' = s.Blobs
    /\ ColBlobs' = s.ColBlobs
    /\ DensityMap' = s.DensityMap
    /\ created' = s.created
    /\ fwd' = s.fwd

\* a call: the caller's map, an empty pool, no scan under way; His are the
\* addresses malloc may serve
InitBlob(D, His) ==
    /\ IdleBGM /\ IdleDensity /\ IdleRun /\ IdleLoop
    /\ \E d \in D :
         /\ Width = d[1] /\ Height = d[2]
         /\ InputMap \in [0 .. (d[1] * d[2] - 1) -> DensityVals]
    /\ DensityMap = InputMap
    /\ blob = <<>> /\ nBlobs = 0 /\ FreeBlobs = NULL /\ Blobs = NULL
    /\ ColBlobs = <<>> /\ Y = 0 /\ pc = "idle" /\ created = <<>>
    /\ fwd = [Merges |-> <<>>, RowStubs |-> {}]
    /\ AddrHi \in His

\* Blob_Finder / Blob_Finder_Map up to the row loop
Enter ==
    /\ pc = "idle"
    /\ pc' = "scan"
    /\ Blobs' = NULL
    /\ ColBlobs' = [X0 \in 0 .. (Width - 1) |-> NULL]
    /\ Y' = 0
    /\ UNCHANGED <<Width, Height, InputMap, DensityMap, blob, nBlobs, FreeBlobs, AddrHi,
                   created, fwd>>
    /\ UNCHANGED <<bgmVars, densVars, runVars, loopVars>>

\* one row of Blob_Finder: the X loop, then Reap_Expired_Blobs(Blobs, Y)
Scan_Row ==
    /\ pc = "scan" /\ Y < Height
    /\ Store(Reap_Expired_Blobs(Row_Loop(Scan, 0, Y, FALSE), Y))
    /\ Y' = Y + 1
    /\ UNCHANGED <<Width, Height, InputMap, pc, AddrHi>>
    /\ UNCHANGED <<bgmVars, densVars, runVars, loopVars>>

\* the end of Blob_Finder: Reap_FP_Blobs, Number_Blobs, return
Finish ==
    /\ pc = "scan" /\ Y = Height
    /\ LET s1 == Reap_FP_Blobs(Scan)
       IN  Store([s1 EXCEPT !.blob = Number_Blobs(@, s1.Blobs, 1)])
    /\ pc' = "done"
    /\ UNCHANGED <<Width, Height, InputMap, Y, AddrHi>>
    /\ UNCHANGED <<bgmVars, densVars, runVars, loopVars>>

\* one row of Blob_Finder_Map: the X loop only
Scan_Row_Map ==
    /\ pc = "scan" /\ Y < Height
    /\ Store(Row_Loop(Scan, 0, Y, TRUE))
    /\ Y' = Y + 1
    /\ UNCHANGED <<Width, Height, InputMap, pc, AddrHi>>
    /\ UNCHANGED <<bgmVars, densVars, runVars, loopVars>>

\* what a read through a pointer to no blob may yield
WildIDs == {-1, 0}

\* mutant of Finish_Map: the forwarded blobs stay on the returned list
Finish_Map_NoReap ==
    /\ pc = "scan" /\ Y = Height
    /\ LET blobs1 == Number_Blobs(blob, Blobs, 1)
           lost == AddrHi # 0 /\ \E I \in DOMAIN DensityMap : DensityMap[I] # 0
       IN  \/ /\ ~lost
              /\ Store([Scan EXCEPT
                     !.blob = blobs1,
                     !.DensityMap = Mark_Blob_ID_Map(blobs1, DensityMap, Width * Height,
                                                     AddrHi, 0)])
              /\ pc' = "done"
           \/ /\ lost
              /\ Store([Scan EXCEPT !.blob = blobs1])
              /\ pc' = "fault"
    /\ UNCHANGED <<Width, Height, InputMap, Y, AddrHi>>
    /\ UNCHANGED <<bgmVars, densVars, runVars, loopVars>>

\* the end of Blob_Finder_Map: Number_Blobs, Mark_Blob_ID_Map, Reap_FP_Blobs.
\* Where the map holds a cut-off address Mark_Blob_ID_Map reads through a
\* pointer to no blob: the call stops there or goes on with whatever it read.
Finish_Map ==
    /\ pc = "scan" /\ Y = Height
    /\ LET blobs1 == Number_Blobs(blob, Blobs, 1)
           lost == AddrHi # 0 /\ \E I \in DOMAIN DensityMap : DensityMap[I] # 0
       IN  \/ /\ ~lost
              /\ Store(Reap_FP_Blobs([Scan EXCEPT
                     !.blob = blobs1,
                     !.DensityMap = Mark_Blob_ID_Map(blobs1, DensityMap, Width * Height,
                                                     AddrHi, 0)]))
              /\ pc' = "done"
           \/ /\ lost
              /\ Store([Scan EXCEPT !.blob = blobs1])
              /\ pc' = "fault"
           \/ /\ lost
              /\ \E wild \in WildIDs :
                   Store(Reap_FP_Blobs([Scan EXCEPT
                       !.blob = blobs1,
                       !.DensityMap = Mark_Blob_ID_Map(blobs1, DensityMap, Width * Height,
                                                       AddrHi, wild)]))
              /\ pc' = "done"
    /\ UNCHANGED <<Width, Height, InputMap, Y, AddrHi>>
    /\ UNCHANGED <<bgmVars, densVars, runVars, loopVars>>

NextBlob == Enter \/ Scan_Row \/ Finish

InitFinder == InitBlob(Dims, {0})

SpecBlob == InitFinder /\ [][NextBlob]_vars

NextBlobMap == Enter \/ Scan_Row_Map \/ Finish_Map

\* Blob_Finder_Map with the pool at an address that fits in an int, or not
InitFinderMap == InitBlob(Dims, {0, 1})

SpecBlobMap == InitFinderMap /\ [][NextBlobMap]_vars

(***************************************************************************)
(* Properties of the background model.                                     *)
(***************************************************************************)
\* the free list, in list order: the recycled cells, then the cells of the
\* newest block that were never handed out
FreeChain == Chain(Mem, FreeCells, nCells)
AllChains == {SetOf(Mem, I) : I \in DOMAIN BGM} \cup {FreeChain}
NoRepeat(s) == Cardinality(Range(s)) = Len(s)

\* C1: after creation, whatever Decimate_BGM, Ratio_Match_Pixel and Add_Cell
\* calls were made and with whatever Cth, every slot's cell list has at
\* least one cell.
C1_SlotNeverEmpty ==
    Created => \A I \in Sets : BGM[I] # NULL /\ Len(SetOf(Mem, I)) >= 1

\* C1 witness: a decimation has evicted a cell and left a one-cell set
C1_Witness ==
    /\ Created
    /\ Freed >= 1
    /\ \E I \in Sets : Len(SetOf(Mem, I)) = 1

C3_CountPositive ==
    /\ ~fault
    /\ \A h \in LiveCells(Mem) :
         cell[h].Count > 0 /\ cell[h].R >= 0 /\ cell[h].G >= 0 /\ cell[h].B >= 0

(***************************************************************************)
(* The blob finder: what a scan is measured against.  The components are   *)
(* computed from the caller's map alone, by closure under 4-adjacency.     *)
(***************************************************************************)
TallDims == {<<3, 5>>}

InitFinderTall == InitBlob(TallDims, {0})

SpecBlobTall == InitFinderTall /\ [][NextBlob]_vars

Pool == [blob |-> blob, nBlobs |-> nBlobs, FreeBlobs |-> FreeBlobs]

RECURSIVE BlobChain(_, _, _)
BlobChain(s, h, fuel) ==
    IF h = NULL \/ fuel = 0 THEN <<>>
    ELSE IF h > Len(s.blob) THEN [i \in 1 .. (s.nBlobs - h + 1) |-> h + i - 1]
    ELSE <<h>> \o BlobChain(s, NextBlobOf(s, h), fuel - 1)

ActiveList == BlobChain(Pool, Blobs, nBlobs)
ActiveSet == Range(ActiveList)
FreeBlobList == BlobChain(Pool, FreeBlobs, nBlobs)
FreeBlobSet == Range(FreeBlobList)

Positions == 0 .. (Width * Height - 1)
XOf(I) == I % Width
YOf(I) == I \div Width
Worthy == {I \in Positions : InputMap[I] >= Bth}
Adjacent(I, J) ==
    \/ YOf(I) = YOf(J) /\ abs(XOf(I) - XOf(J)) = 1
    \/ XOf(I) = XOf(J) /\ abs(YOf(I) - YOf(J)) = 1

RECURSIVE Grow(_)
Grow(S) ==
    LET T == S \cup {J \in Worthy : \E I \in S : Adjacent(I, J)}
    IN  IF T = S THEN S ELSE Grow(T)

Component(I) == Grow({I})
Components == {Component(I) : I \in Worthy}

MinOf(S) == CHOOSE a \in S : \A b \in S : a <= b
MaxOf(S) == CHOOSE a \in S : \A b \in S : a >= b

RECURSIVE SumOf(_)
SumOf(S) == IF S = {} THEN 0 ELSE LET a == CHOOSE a \in S : TRUE IN a + SumOf(S \ {a})

\* the box and the area of blob record b are those of the set C of positions
BoxIs(b, C) ==
    /\ b.Count = Cardinality(C)
    /\ b.Xmin = MinOf({XOf(I) : I \in C}) /\ b.Xmax = MaxOf({XOf(I) : I \in C})
    /\ b.Ymin = MinOf({YOf(I) : I \in C}) /\ b.Ymax = MaxOf({YOf(I) : I \in C})

RegPos(b) == b.Yreg * Width + b.Xreg

\* a position where the scan calls New_Blob: worthy, nothing worthy left or above
Starter(I) ==
    /\ I \in Worthy
    /\ XOf(I) = 0 \/ (I - 1) \notin Worthy
    /\ YOf(I) = 0 \/ (I - Width) \notin Worthy

\* the last call of New_Blob that returned handle h
Birth(h) == MaxOf({i \in DOMAIN created : created[i] = h})

\* C4: in Blob_Finder a blob that became a forwarding stub during a row (Expire
\* = that row + 1) is still on the active list when the row is done and is on
\* the free list when the next row is done (after Reap_FP_Blobs if there is no
\* next row); at every row boundary no ColBlobs entry and no FP of a blob on the
\* active list refers to a blob on the free list.
C4_StubReclaimedNextRow ==
    LET Active == ActiveSet
        Free == FreeBlobSet
    IN  /\ Active \cap Free = {}
        /\ Active \cup Free = 1 .. nBlobs
        /\ pc = "scan" =>
             /\ \A b \in Active : IF blob[b].FP # NULL
                                  THEN blob[b].Expire = Y /\ blob[b].FP \in Active
                                  ELSE blob[b].Expire = -1
             /\ \A h \in Free \cap DOMAIN blob :
                    blob[h].FP # NULL /\ blob[h].Expire >= 1 /\ blob[h].Expire < Y
             /\ \A X0 \in DOMAIN ColBlobs : ColBlobs[X0] # NULL => ColBlobs[X0] \in Active
        /\ pc = "done" =>
             /\ \A b \in Active : blob[b].FP = NULL
             /\ \A h \in Free \cap DOMAIN blob :
                    blob[h].FP # NULL /\ blob[h].Expire >= 1 /\ blob[h].Expire <= Height

\* a stub has just been moved to the free list, at the end of the row after its
\* merge, and a column holds the blob it forwarded to
C4_Witness ==
    /\ pc = "scan" /\ Y < Height
    /\ \E h \in FreeBlobSet :
         /\ h <= Len(blob) /\ blob[h].FP # NULL /\ blob[h].Expire = Y - 1
         /\ \E X0 \in DOMAIN ColBlobs : ColBlobs[X0] = blob[h].FP

\* two of the positions where component C was entered by New_Blob lie on one row
SameRowStarters(C) ==
    \E I, J \in C : I # J /\ Starter(I) /\ Starter(J) /\ YOf(I) = YOf(J)

\* C5: when two blobs created on the same row become connected in a later row,
\* Blob_Finder returns exactly one blob for their region, whose bounding box is
\* the union of the boxes and whose Count is the sum of the areas (the box and
\* the size of the connected region); no forwarded blob is returned for it.
C5_SameRowMerge ==
    pc = "done" =>
        \A C \in Components : SameRowStarters(C) =>
            /\ Cardinality({h \in ActiveSet : RegPos(blob[h]) \in C}) = 1
            /\ \A h \in ActiveSet : RegPos(blob[h]) \in C =>
                   BoxIs(blob[h], C) /\ blob[h].FP = NULL

C5_Witness ==
    /\ pc = "done"
    /\ Len(created) > Len(ActiveList)
    /\ \E C \in Components :
         /\ SameRowStarters(C)
         /\ \E h \in ActiveSet : BoxIs(blob[h], C) /\ blob[h].Count >= 3

Rect(x1, x2, y1, y2) ==
    {I \in Positions : XOf(I) \in x1 .. x2 /\ YOf(I) \in y1 .. y2}

IsRect(S) ==
    /\ S # {}
    /\ S = Rect(MinOf({XOf(I) : I \in S}), MaxOf({XOf(I) : I \in S}),
                MinOf({YOf(I) : I \in S}), MaxOf({YOf(I) : I \in S}))

\* the rectangles R1 for which the worthy positions are R1 and a second
\* rectangle disjoint from it; R1 is the one holding the first worthy position
FirstRects ==
    IF Worthy = {} THEN {}
    ELSE LET p == MinOf(Worthy)
         IN  {R \in {Rect(XOf(p), x2, YOf(p), y2) :
                        x2 \in XOf(p) .. (Width - 1), y2 \in YOf(p) .. (Height - 1)} :
                 R \subseteq Worthy /\ IsRect(Worthy \ R)}

Touching(R1, R2) == \E I \in R1, J \in R2 : Adjacent(I, J)

TwoBlobsFor(R1, R2) ==
    /\ Len(ActiveList) = 2
    /\ \E h1, h2 \in ActiveSet :
         h1 # h2 /\ BoxIs(blob[h1], R1) /\ BoxIs(blob[h2], R2)

\* C6 as stated: on a map whose worthy positions are exactly two disjoint
\* rectangles Blob_Finder returns exactly two blobs, one per rectangle, with the
\* rectangle as bounding box and its area as Count.
C6_TwoDisjointRectangles ==
    pc = "done" => \A R1 \in FirstRects : TwoBlobsFor(R1, Worthy \ R1)

\* C6: the same for two rectangles of which no position is 4-adjacent to a
\* position of the other.
C6_TwoSeparateRectangles ==
    pc = "done" =>
        \A R1 \in FirstRects : ~Touching(R1, Worthy \ R1) => TwoBlobsFor(R1, Worthy \ R1)

C6_Witness ==
    /\ pc = "done"
    /\ \E R1 \in FirstRects :
         /\ ~Touching(R1, Worthy \ R1)
         /\ Cardinality(R1) >= 4 /\ Cardinality(Worthy \ R1) >= 2
         /\ TwoBlobsFor(R1, Worthy \ R1)

\* the maximal runs of worthy positions of a one-row map
Runs ==
    {r \in Positions \X Positions :
        /\ r[1] <= r[2]
        /\ \A I \in r[1] .. r[2] : I \in Worthy
        /\ r[1] = 0 \/ (r[1] - 1) \notin Worthy
        /\ r[2] = Width - 1 \/ (r[2] + 1) \notin Worthy}

\* C7: on a one-row map every maximal run of positions with density >= Bth gives
\* exactly one returned blob, with Count the run length, Xmin and Xmax the run's
\* first and last column and Ymin = Ymax = 0, and nothing else is returned.
C7_SingleRowRuns ==
    (pc = "done" /\ Height = 1) =>
        /\ Len(ActiveList) = Cardinality(Runs)
        /\ \A r \in Runs :
             Cardinality({h \in ActiveSet :
                 /\ blob[h].Count = r[2] - r[1] + 1
                 /\ blob[h].Xmin = r[1] /\ blob[h].Xmax = r[2]
                 /\ blob[h].Ymin = 0 /\ blob[h].Ymax = 0}) = 1

\* a row of four positions, all at the threshold: one blob of Count 4
C7_Witness ==
    /\ pc = "done" /\ Height = 1 /\ Width = 4
    /\ \A I \in Positions : InputMap[I] = Bth
    /\ \E h \in ActiveSet :
         blob[h].Count = 4 /\ blob[h].Xmin = 0 /\ blob[h].Xmax = 3

\* C8: the list Blob_Finder returns holds no forwarded blob and its blobs carry
\* the IDs 1, 2, ..., n in list order; the list is ordered most recently created
\* first; until the scan has completed every blob's ID is 0.
C8_ReturnedNumbering ==
    /\ pc = "done" =>
         \A i \in DOMAIN ActiveList :
             blob[ActiveList[i]].FP = NULL /\ blob[ActiveList[i]].ID = i
    /\ \A i, j \in DOMAIN ActiveList :
         i < j => Birth(ActiveList[i]) > Birth(ActiveList[j])
    /\ pc # "done" => \A h \in DOMAIN blob : blob[h].ID = 0

\* three blobs returned after a merge, one of them in a reused Blob object
C8_Witness ==
    /\ pc = "done"
    /\ Len(ActiveList) >= 3
    /\ Len(created) > Cardinality(Range(created))
    /\ blob[ActiveList[3]].ID = 3

\* C9: after a scan every returned blob's registration point is the first
\* position, in (Y, then X) order, of the region merged into it.
C9_RegistrationIsFirst ==
    pc = "done" =>
        \A h \in ActiveSet : RegPos(blob[h]) = MinOf(Component(RegPos(blob[h])))

\* C10: Blob_Finder_Map returns, and after it has, every position whose density
\* was >= Bth holds the ID of the returned, non-forwarded blob that contains it,
\* positions hold the same ID exactly when they lie in the same blob, and every
\* position whose density was below Bth holds 0.
C10_MapHoldsRootIDs ==
    /\ pc # "fault"
    /\ pc = "done" =>
        LET comp == [I \in Worthy |-> Component(I)]
        IN  /\ \A I \in Positions \ Worthy : DensityMap[I] = 0
            /\ \A I \in Worthy :
                 \E h \in ActiveSet :
                     /\ blob[h].FP = NULL /\ blob[h].ID = DensityMap[I]
                     /\ RegPos(blob[h]) \in comp[I] /\ BoxIs(blob[h], comp[I])
            /\ \A I, J \in Worthy : (DensityMap[I] = DensityMap[J]) <=> (comp[I] = comp[J])

(***************************************************************************)
(* The density scanners (rollers.c).  A wheel is an int used as a shift    *)
(* register of WheelSize bits: the newest pixel enters at Edge, the oldest *)
(* leaves at bit 0.  A call is one step; DWrites counts its map writes.    *)
(***************************************************************************)
Unwritten == 0 - 1

\* (Frm[3*I] | Frm[3*I+1] | Frm[3*I+2]) != 0
NonBlack(P) == P.R # 0 \/ P.G # 0 \/ P.B # 0

\* Edge = 1 << (WheelSize - 1)
EdgeOf(ws) == 2 ^ (ws - 1)

\* Wheel & 1, on two's complement ints
And1(w) == w % 2

\* the new pixel entering at bit 0: it leaves with the next roll
OrEdge_Low(w, Edge) == IF w % 2 = 1 THEN w ELSE w + 1

\* Wheel |= Edge
OrEdge(w, Edge) == IF (w \div Edge) % 2 = 1 THEN w ELSE w + Edge

\* DensityMap[idx] = v; an index outside the map is a write outside the buffer
MapWrite(st, idx, v) ==
    IF idx \in DOMAIN st.Map
    THEN [st EXCEPT !.Map[idx] = v, !.Writes[idx] = @ + 1]
    ELSE [st EXCEPT !.fault = TRUE]

\* Roll without the shift: the oldest pixel never leaves the wheel
Roll_NoShift(st) == [st EXCEPT !.Sum = @ - And1(st.Wheel)]

\* Sum -= Wheel & 1; Wheel >>= 1
Roll(st) == [st EXCEPT !.Sum = @ - And1(st.Wheel), !.Wheel = Shr1(@)]

\* the J loop writing Sum without rolling the wheel
RECURSIVE H_Drain_NoRoll(_, _, _, _)
H_Drain_NoRoll(st, I, J, WheelOff) ==
    IF J > WheelOff THEN st
    ELSE H_Drain_NoRoll(MapWrite(st, I - WheelOff + J, st.Sum), I, J + 1, WheelOff)

\* the J loop at a row's end of Horizontal_Image_Density
RECURSIVE H_Drain(_, _, _, _)
H_Drain(st, I, J, WheelOff) ==
    IF J > WheelOff THEN st
    ELSE LET st1 == Roll(st)
         IN  H_Drain(MapWrite(st1, I - WheelOff + J, st1.Sum), I, J + 1, WheelOff)

\* Sum = Wheel = 0
RowEnd(st) == [st EXCEPT !.Sum = 0, !.Wheel = 0]

\* the body of the I loop of Horizontal_Image_Density, and its I++
H_Step(st, fb, Edge, WheelOff) ==
    LET I == st.I
        st1 == Roll(st)
        st2 == IF NonBlack(fb.Frm[I])
               THEN [st1 EXCEPT !.Sum = @ + 1, !.Wheel = OrEdge(@, Edge)]
               ELSE st1
        st3 == IF I % fb.Width >= WheelOff
               THEN MapWrite(st2, I - WheelOff, st2.Sum)
               ELSE st2
    IN  IF I % fb.Width = fb.Width - 1
        THEN [RowEnd(H_Drain(st3, I, 1, WheelOff)) EXCEPT !.I = @ + 1]
        ELSE [st3 EXCEPT !.I = @ + 1]

\* for (I = 0; I < Width * Height; I++)
RECURSIVE H_Loop(_, _, _, _)
H_Loop(st, fb, Edge, WheelOff) ==
    IF st.I >= fb.Width * fb.Height THEN st
    ELSE H_Loop(H_Step(st, fb, Edge, WheelOff), fb, Edge, WheelOff)

\* the map before a call: nothing written
BlankMap(fb) ==
    [Map |-> [I \in 0 .. (fb.Width * fb.Height - 1) |-> Unwritten],
     Writes |-> [I \in 0 .. (fb.Width * fb.Height - 1) |-> 0],
     Stray |-> {},
     fault |-> FALSE]

Horizontal_Scan(fb, ws) ==
    H_Loop(BlankMap(fb) @@ [Sum |-> 0, Wheel |-> 0, I |-> 0], fb, EdgeOf(ws), Shr1(ws))

\* a call: a frame and a wheel size
InitDensity ==
    /\ IdleBGM /\ IdleBlob /\ IdleRun /\ IdleLoop
    /\ \E d \in DensityDims :
         DFB \in [Width : {d[1]}, Height : {d[2]},
                  Frm : [0 .. (d[1] * d[2] - 1) -> DensityPixels]]
    /\ WheelSize \in 1 .. MaxWheel
    /\ DMap = <<>> /\ DWrites = <<>> /\ DStray = {} /\ dpc = "idle"

\* the map a call leaves; a call that wrote outside the map ends in bad
Return(st, to, bad) ==
    /\ DMap' = st.Map
    /\ DWrites' = st.Writes
    /\ DStray' = st.Stray
    /\ dpc' = IF st.fault THEN bad ELSE to
    /\ UNCHANGED <<DFB, WheelSize>>
    /\ UNCHANGED <<bgmVars, blobVars, runVars, loopVars>>

Horizontal_Image_Density ==
    /\ dpc = "idle"
    /\ Return(Horizontal_Scan(DFB, WheelSize), "horizontal", "horizontal fault")

\* the J loop at a column's end, writing Sum without rolling the wheel
RECURSIVE V_Drain_NoRoll(_, _, _, _, _)
V_Drain_NoRoll(st, I, J, WheelOff, fb) ==
    IF J > WheelOff THEN st
    ELSE V_Drain_NoRoll(MapWrite(st, I - WheelOff + J, st.Sum), I, J + fb.Width,
                        WheelOff, fb)

\* the J loop at a column's end of Vertical_Image_Density
RECURSIVE V_Drain(_, _, _, _, _)
V_Drain(st, I, J, WheelOff, fb) ==
    IF J > WheelOff THEN st
    ELSE LET st1 == Roll(st)
         IN  V_Drain(MapWrite(st1, I - WheelOff + J, st1.Sum), I, J + fb.Width,
                     WheelOff, fb)

\* the body of the Y loop of Vertical_Image_Density, and its Y += Width
V_Step(st, fb, Edge, WheelOff) ==
    LET I == st.X + st.Y
        st1 == Roll(st)
        st2 == IF NonBlack(fb.Frm[I])
               THEN [st1 EXCEPT !.Sum = @ + 1, !.Wheel = OrEdge(@, Edge)]
               ELSE st1
        st3 == IF st.Y >= WheelOff
               THEN MapWrite(st2, I - WheelOff, st2.Sum)
               ELSE st2
    IN  IF st.Y = (fb.Height - 1) * fb.Width
        THEN [RowEnd(V_Drain(st3, I, fb.Width, WheelOff, fb)) EXCEPT !.Y = @ + fb.Width]
        ELSE [st3 EXCEPT !.Y = @ + fb.Width]

\* for (Y = 0; Y < Width * Height; Y += Width)
RECURSIVE V_Rows(_, _, _, _)
V_Rows(st, fb, Edge, WheelOff) ==
    IF st.Y >= fb.Width * fb.Height THEN st
    ELSE V_Rows(V_Step(st, fb, Edge, WheelOff), fb, Edge, WheelOff)

\* for (X = 0; X < Width; X++)
RECURSIVE V_Cols(_, _, _, _)
V_Cols(st, fb, Edge, WheelOff) ==
    IF st.X >= fb.Width THEN st
    ELSE V_Cols([V_Rows([st EXCEPT !.Y = 0], fb, Edge, WheelOff) EXCEPT !.X = @ + 1],
                fb, Edge, WheelOff)

Vertical_Scan(fb, ws) ==
    V_Cols(BlankMap(fb) @@ [Sum |-> 0, Wheel |-> 0, X |-> 0, Y |-> 0], fb, EdgeOf(ws),
           Shr1(ws) * fb.Width)

Vertical_Image_Density ==
    /\ dpc = "idle"
    /\ Return(Vertical_Scan(DFB, WheelSize), "vertical", "vertical fault")

\* how the build lays out Wheels[Height] and Sums[Height]: the number of ints
\* between the end of Sums and Wheels[0], so that Sums[Height + lay + k] is the
\* object Wheels[k].  From WheelSize / 2 on, no access of the scan reaches Wheels
\* that way.
Layouts == 0 .. (MaxWheel \div 2)

\* Sums[Y] -= Wheels[Y] & 1; Wheels[Y] >>= 1.  For Y >= Height both arrays are
\* indexed past their end: the read of Wheels[Y] yields a word with low bit g,
\* the write to Sums[Y] lands on Wheels[Y - Height - lay] where that exists;
\* Stray keeps the index.
RollRow(st, fb, Y0, lay, g) ==
    IF Y0 < fb.Height
    THEN [st EXCEPT !.Sums[Y0] = @ - And1(st.Wheels[Y0]), !.Wheels[Y0] = Shr1(@)]
    ELSE IF Y0 - fb.Height - lay \in DOMAIN st.Wheels
         THEN [st EXCEPT !.Wheels[Y0 - fb.Height - lay] = @ - g,
                         !.Stray = @ \cup {Y0}]
         ELSE [st EXCEPT !.Stray = @ \cup {Y0}]

\* the body of the Y loop of Area_Image_Density, and its Y++
A_Step(st, fb, ws, lay, g) ==
    LET X0 == st.X
        Y0 == st.Y
        I == X0 + Y0 * fb.Width
        HalfWheel == Shr1(ws)
        WheelOff == HalfWheel * (fb.Width + 1)
        st1 == RollRow(st, fb, Y0, lay, g)
        st2 == [st1 EXCEPT !.Vsum = @ - st1.Vwheel[st1.Vptr]]
        st3 == IF Y0 < fb.Height /\ X0 < fb.Width /\ NonBlack(fb.Frm[I])
               THEN [st2 EXCEPT !.Sums[Y0] = @ + 1, !.Wheels[Y0] = OrEdge(@, EdgeOf(ws))]
               ELSE st2
        st4 == IF Y0 < fb.Height
               THEN [st3 EXCEPT !.Vwheel[st3.Vptr] = st3.Sums[Y0],
                                !.Vsum = @ + st3.Sums[Y0]]
               ELSE st3
        st5 == [st4 EXCEPT !.Vptr = (@ + 1) % ws, !.Y = @ + 1]
    IN  IF X0 >= HalfWheel /\ Y0 >= HalfWheel
        THEN MapWrite(st5, I - WheelOff, st5.Vsum)
        ELSE st5

\* for (Y = 0; Y < FB->Height + HalfWheel; Y++)
RECURSIVE A_Rows(_, _, _, _, _)
A_Rows(st, fb, ws, lay, g) ==
    IF st.Y >= fb.Height + Shr1(ws) THEN st
    ELSE A_Rows(A_Step(st, fb, ws, lay, g), fb, ws, lay, g)

\* for (X = 0; X < FB->Width + HalfWheel; X++): clear the vertical wheel, scan
\* the column
RECURSIVE A_Cols(_, _, _, _, _)
A_Cols(st, fb, ws, lay, g) ==
    IF st.X >= fb.Width + Shr1(ws) THEN st
    ELSE A_Cols([A_Rows([st EXCEPT !.Vwheel = [v \in 0 .. (ws - 1) |-> 0],
                                   !.Vsum = 0, !.Vptr = 0, !.Y = 0],
                        fb, ws, lay, g) EXCEPT !.X = @ + 1],
                fb, ws, lay, g)

Area_Scan(fb, ws, lay, g) ==
    A_Cols(BlankMap(fb) @@ [Wheels |-> [r \in 0 .. (fb.Height - 1) |-> 0],
                            Sums |-> [r \in 0 .. (fb.Height - 1) |-> 0],
                            Vwheel |-> [v \in 0 .. (ws - 1) |-> 0],
                            Vsum |-> 0, Vptr |-> 0, X |-> 0, Y |-> 0],
           fb, ws, lay, g)

Area_Image_Density ==
    /\ dpc = "idle"
    /\ \E lay \in Layouts, g \in {0, 1} :
         Return(Area_Scan(DFB, WheelSize, lay, g), "area", "area fault")

NextDensity == Horizontal_Image_Density \/ Vertical_Image_Density \/ Area_Image_Density

SpecDensity == InitDensity /\ [][NextDensity]_vars

\* the pixels of row r, columns lo .. hi, that are inside the frame and not black
BoxCount(fb, xlo, xhi, ylo, yhi) ==
    Cardinality({I \in DOMAIN fb.Frm :
        /\ I % fb.Width >= xlo /\ I % fb.Width <= xhi
        /\ I \div fb.Width >= ylo /\ I \div fb.Width <= yhi
        /\ NonBlack(fb.Frm[I])})

\* the window of a map position along one axis
WinLo(p, ws) == p - (ws - 1 - ws \div 2)
WinHi(p, ws) == p + ws \div 2

AllNonBlack == \A I \in DOMAIN DFB.Frm : NonBlack(DFB.Frm[I])

\* the column of a map position
ColOf(I) == I % DFB.Width
RowOf(I) == I \div DFB.Width

\* C11: after Horizontal_Image_Density on a frame whose rows are all non-black,
\* of length L = Width, with WheelSize W <= L, the call stays inside the map and
\* every map position at a column in [W/2, L - W/2 - 1] holds W.
C11_InteriorEqualsWheel ==
    /\ ~(dpc = "horizontal fault" /\ WheelSize <= DFB.Width)
    /\ (dpc = "horizontal" /\ AllNonBlack /\ WheelSize <= DFB.Width) =>
          \A I \in DOMAIN DMap :
              (/\ ColOf(I) >= WheelSize \div 2
               /\ ColOf(I) <= DFB.Width - WheelSize \div 2 - 1) => DMap[I] = WheelSize

\* a row of 8 non-black pixels scanned with a wheel of 3: columns 1 .. 6 hold 3
C11_Witness ==
    /\ dpc = "horizontal" /\ AllNonBlack
    /\ DFB.Width = 8 /\ WheelSize = 3
    /\ \A I \in 1 .. 6 : DMap[I] = 3

\* the columns of a row of length L outside [W/2, L - W/2 - 1]
LeftEdge(I) == ColOf(I) < WheelSize \div 2
RightEdge(I) == ColOf(I) > DFB.Width - WheelSize \div 2 - 1

\* C12 as stated: on an all-non-black row of length L with W <= L, the
\* positions outside the interior rise from 1 at the first position and fall to
\* 1 at the last position, one per position.
C12_RampFromOne ==
    (dpc = "horizontal" /\ AllNonBlack /\ WheelSize <= DFB.Width) =>
        \A I \in DOMAIN DMap :
            /\ LeftEdge(I) => DMap[I] = ColOf(I) + 1
            /\ RightEdge(I) => DMap[I] = DFB.Width - ColOf(I)

\* C12 amended: on an all-non-black row of length L with W <= L, the position
\* at column p < W/2 holds p + W/2 + 1 and the position at column
\* p > L - W/2 - 1 holds L - p + (W - 1 - W/2): the ramp rises from W/2 + 1 at
\* the first position and falls to W - W/2 at the last one.
C12_RampFromHalfWheel ==
    (dpc = "horizontal" /\ AllNonBlack /\ WheelSize <= DFB.Width) =>
        \A I \in DOMAIN DMap :
            /\ LeftEdge(I) => DMap[I] = ColOf(I) + WheelSize \div 2 + 1
            /\ RightEdge(I) =>
                  DMap[I] = DFB.Width - ColOf(I) + (WheelSize - 1 - WheelSize \div 2)

\* a row of 8 non-black pixels scanned with a wheel of 4: 3 4 ... 3 2
C12_Witness ==
    /\ dpc = "horizontal" /\ AllNonBlack
    /\ DFB.Width = 8 /\ WheelSize = 4
    /\ DMap[0] = 3 /\ DMap[1] = 4 /\ DMap[6] = 3 /\ DMap[7] = 2

\* C13: for every frame with Width >= WheelSize / 2, Horizontal_Image_Density
\* stays inside the map and leaves at row r, column p the number of non-black
\* pixels of row r at the columns p - (WheelSize - 1 - WheelSize / 2) ..
\* p + WheelSize / 2 that lie inside the row; no other row contributes.
C13_HorizontalBoxCount ==
    (dpc \in {"horizontal", "horizontal fault"} /\ DFB.Width >= WheelSize \div 2) =>
        /\ dpc = "horizontal"
        /\ \A I \in DOMAIN DMap :
              DMap[I] = BoxCount(DFB, WinLo(ColOf(I), WheelSize), WinHi(ColOf(I), WheelSize),
                                 RowOf(I), RowOf(I))

\* a non-black row above a black row, scanned with a wheel of 3
C13_Witness ==
    /\ dpc = "horizontal" /\ WheelSize = 3
    /\ DFB.Width = 3 /\ DFB.Height = 2
    /\ \A I \in 0 .. 2 : NonBlack(DFB.Frm[I])
    /\ \A I \in 3 .. 5 : ~NonBlack(DFB.Frm[I])
    /\ DMap[1] = 3 /\ DMap[3] = 0

\* C14: Area_Image_Density writes every map position exactly once, with the
\* number of non-black pixels in the WheelSize x WheelSize window around it
\* (the offsets of C13 on both axes, clipped to the frame), a value in
\* 0 .. WheelSize^2.
C14_AreaBoxCount ==
    (dpc \in {"area", "area fault"}) =>
        /\ dpc = "area"
        /\ \A I \in DOMAIN DMap :
              /\ DWrites[I] = 1
              /\ DMap[I] = BoxCount(DFB, WinLo(ColOf(I), WheelSize), WinHi(ColOf(I), WheelSize),
                                    WinLo(RowOf(I), WheelSize), WinHi(RowOf(I), WheelSize))
              /\ DMap[I] >= 0 /\ DMap[I] <= WheelSize * WheelSize

(***************************************************************************)
(* A run of the driver on the background model (P3-1.c): Create_Initial_BGM *)
(* once, then frames through the frame drivers and Decimate_BGM, all with  *)
(* the run's MCDth and Cth.  Calls is the history of the run.              *)
(***************************************************************************)
ThrVals == 0 .. MaxThr

InitRun ==
    /\ IdleBGM /\ IdleBlob /\ IdleDensity /\ IdleLoop
    /\ Eps \in EpsilonVals /\ Thr \in ThrVals /\ Calls = <<>>

\* the effects of a call on the model, and its entry in the history
Record(m, Frm, flt, op, In, Result) ==
    /\ Len(Calls) < MaxCalls
    /\ BGM' = m.BGM
    /\ cell' = m.cell
    /\ nCells' = m.nCells
    /\ FreeCells' = m.FreeCells
    /\ FB' = Frm
    /\ fault' = flt
    /\ Calls' = Append(Calls, [op |-> op, Frm |-> In, Result |-> Result])
    /\ UNCHANGED <<Eps, Thr>>
    /\ UNCHANGED <<blobVars, densVars, loopVars>>

\* BGM = Create_Initial_BGM(FB)
Run_Create ==
    /\ ~Created
    /\ \E Frm \in Frames :
         LET m == Create_Loop(Mem, Frm, 0)
         IN  Record(m, Frm, FALSE, "create", Frm, m.BGM)
    /\ UNCHANGED Freed

\* what Ratio_Match_Pixel returns for each pixel of Frm on its slot
Matches(Frm) ==
    [I \in Sets |-> Ratio_Match_Pixel(cell, Frm[I], BGM[I], Eps).Result]

\* Process_Frame_FG(BGM, FB, MCDth, Cth)
Run_Frame_FG ==
    /\ Created /\ ~fault
    /\ \E Frm \in Frames :
         LET r == FG_Loop([m |-> Mem, Frm |-> Frm, fault |-> FALSE], 0, Eps, Thr)
         IN  Record(r.m, r.Frm, r.fault, "fg", Frm, Matches(Frm))
    /\ UNCHANGED Freed

\* Ratio_Match_Pixel(P, BGM[I], MCDth) with nothing else
Run_Match ==
    /\ Created /\ ~fault
    /\ \E I \in Sets, Frm \in Frames :
         LET r == Ratio_Match_Pixel(cell, Frm[I], BGM[I], Eps)
         IN  Record([Mem EXCEPT !.cell = r.cell], FB, r.fault, "match", Frm,
                    [J \in Sets |-> IF J = I THEN r.Result ELSE NULL])
    /\ UNCHANGED Freed

\* Decimate_BGM(BGM, Cth, Width * Height)
Run_Decimate ==
    /\ Created /\ ~fault
    /\ LET m == Decimate_Loop([cell |-> cell, nCells |-> nCells,
                               FreeCells |-> FreeCells, BGM |-> BGM,
                               Freed |-> 0], 0, Thr)
       IN  /\ Record(m, FB, FALSE, "decimate", FB, BGM)
           /\ Freed' = m.Freed

NextRun == Run_Create \/ Run_Frame_FG \/ Run_Match \/ Run_Decimate

SpecRun == InitRun /\ [][NextRun]_vars

\* the mean a cell stands for (sum / Count per channel)
MeanOf(c) ==
    [R |-> CDiv(c.R, c.Count), G |-> CDiv(c.G, c.Count), B |-> CDiv(c.B, c.Count)]

\* a cell as Create_Initial_BGM and Add_Cell make it from a pixel
AsCell(P) == [R |-> P.R, G |-> P.G, B |-> P.B, Count |-> 1, Next |-> NULL]

\* the run so far: creation, then only Ratio_Match_Pixel calls whose pixels
\* are the pixels of creation (no frame driver, no decimation)
SameColourStream ==
    /\ Len(Calls) >= 1
    /\ \A k \in 2 .. Len(Calls) : Calls[k].op = "match" /\ Calls[k].Frm = Calls[1].Frm

\* C15: for every Epsilon, on a model created from colour c and then only
\* matched against c, every Ratio_Match_Pixel call returns the head of its set,
\* no call divides by zero, and after each call the mean of the cell of every
\* set is c exactly.
C15_StreamMatchesHead ==
    SameColourStream =>
        /\ ~fault
        /\ \A k \in 2 .. Len(Calls) :
              \E I \in Sets : /\ Calls[k].Result[I] = BGM[I]
                              /\ \A J \in Sets \ {I} : Calls[k].Result[J] = NULL
        /\ \A I \in Sets : /\ cell[BGM[I]].Count >= 1
                            /\ cell[BGM[I]].Next = NULL
                            /\ MeanOf(cell[BGM[I]]) = Calls[1].Frm[I]

\* a non-black colour matched MaxCalls - 1 times after creation
C15_Witness ==
    /\ SameColourStream /\ Len(Calls) = MaxCalls
    /\ Calls[1].Frm[0] = [R |-> 2, G |-> 1, B |-> 255]
    /\ cell[BGM[0]].Count = MaxCalls
    /\ cell[BGM[0]].B = MaxCalls * 255

\* P is not within Epsilon of the colour Q
Apart(P, Q, Epsilon) == ~Within(P, AsCell(Q), Epsilon)

\* the run so far starts with creation from X and three frames of one colour A
\* through the frame driver (match, else Add_Cell), X not within Epsilon of A
FedAAA ==
    /\ Len(Calls) >= 4 /\ Calls[1].op = "create"
    /\ \A k \in 2 .. 4 : Calls[k].op = "fg" /\ Calls[k].Frm = Calls[2].Frm
    /\ \A I \in Sets : Apart(Calls[2].Frm[I], Calls[1].Frm[I], Eps)

C17_MatchedIsBlacked ==
    (Len(Calls) >= 1 /\ Calls[Len(Calls)].op = "fg" /\ ~fault) =>
        \A I \in Sets :
            /\ Calls[Len(Calls)].Result[I] # NULL => FB[I] = Black
            /\ Calls[Len(Calls)].Result[I] = NULL => FB[I] = Calls[Len(Calls)].Frm[I]

(***************************************************************************)
(* The frame loop of the driver (P3-1.c): per frame Blob_Finder on the     *)
(* frame's density map, Mark_Blob_CoM and Mark_Blob_BB on a frame buffer   *)
(* of the map's size, then Free_Blobs on the returned list.  The writes of *)
(* the markers are collected as byte indices into FB->Frm.                 *)
(***************************************************************************)
\* FB->Frm[I], FB->Frm[I+1], FB->Frm[I+2]
Bytes(I) == {I, I + 1, I + 2}

\* Mark_Pixel(X, Y, Color, FB) on a frame of Width x Height
Mark_Pixel(X0, Y0) ==
    LET I == 3 * (Y0 * Width + X0)
    IN  Bytes(I) \cup
        (IF FATLINE # 0
         THEN (IF X0 > 0 THEN Bytes(I - 3) ELSE {}) \cup
              (IF X0 + 1 < Width THEN Bytes(I + 3) ELSE {}) \cup
              (IF Y0 > 0 THEN Bytes(I - 3 * Width) ELSE {}) \cup
              (IF Y0 + 1 < Height THEN Bytes(I + 3 * Width) ELSE {})
         ELSE {})

\* Draw_Hline / Draw_Vline: the ends are swapped when out of order
Draw_Hline(Xmin, Xmax, Y0) ==
    UNION {Mark_Pixel(X0, Y0) :
             X0 \in (IF Xmin > Xmax THEN Xmax ELSE Xmin) .. (IF Xmin > Xmax THEN Xmin ELSE Xmax)}

Draw_Vline(Ymin, Ymax, X0) ==
    UNION {Mark_Pixel(X0, Y0) :
             Y0 \in (IF Ymin > Ymax THEN Ymax ELSE Ymin) .. (IF Ymin > Ymax THEN Ymin ELSE Ymax)}

Draw_Rectangle(Xmin, Ymin, Xmax, Ymax) ==
    Draw_Hline(Xmin, Xmax, Ymin) \cup Draw_Hline(Xmin, Xmax, Ymax) \cup
    Draw_Vline(Ymin, Ymax, Xmin) \cup Draw_Vline(Ymin, Ymax, Xmax)

\* the green plus of Mark_Blob_CoM
Plus(X0, Y0) ==
    Mark_Pixel(X0, Y0) \cup Mark_Pixel(X0 - 1, Y0) \cup Mark_Pixel(X0, Y0 - 1) \cup
    Mark_Pixel(X0 + 1, Y0) \cup Mark_Pixel(X0, Y0 + 1)

\* Mark_Blob_CoM(Blobs, FB): the centre of mass divides by Count
Mark_Blob_CoM(list) ==
    UNION {LET b == blob[list[i]]
               X0 == CDiv(b.Xsum, b.Count)
               Y0 == CDiv(b.Ysum, b.Count)
           IN  IF b.FP # NULL THEN Mark_Pixel(X0, Y0) ELSE Plus(X0, Y0) :
           i \in DOMAIN list}

\* Mark_Blob_BB(Blobs, FB)
Mark_Blob_BB(list) ==
    UNION {LET b == blob[list[i]]
           IN  Draw_Rectangle(b.Xmin, b.Ymin, b.Xmax, b.Ymax) : i \in DOMAIN list}

\* GrabBlobAnnotatedMap after Blob_Finder has returned
Annotate ==
    /\ pc = "done"
    /\ IF \E h \in ActiveSet : blob[h].Count = 0
       THEN pc' = "fault" /\ UNCHANGED Marks
       ELSE pc' = "marked" /\ Marks' = Mark_Blob_CoM(ActiveList) \cup Mark_Blob_BB(ActiveList)
    /\ UNCHANGED <<Width, Height, InputMap, DensityMap, blob, nBlobs, FreeBlobs, Blobs,
                   ColBlobs, Y, AddrHi, created, fwd, N>>
    /\ UNCHANGED <<bgmVars, densVars, runVars>>

\* Free_Blobs that pushes the head of the list only
Free_Blobs_HeadOnly(s, Hd) ==
    IF Hd = NULL THEN s
    ELSE [s EXCEPT !.blob[Hd].Next = s.FreeBlobs, !.FreeBlobs = Hd]

\* Free_Blobs(Blobs): the whole list goes in front of the free list
Free_Blobs(s, Hd) ==
    IF Hd = NULL THEN s
    ELSE LET list == BlobChain(s, Hd, s.nBlobs)
             last == list[Len(list)]
         IN  [s EXCEPT !.blob[last].Next = s.FreeBlobs, !.FreeBlobs = Hd]

\* the end of WriteOutOutputImage: Free_Blobs(Blobs); the driver's Blobs keeps
\* its value
Release ==
    /\ pc = "marked"
    /\ LET s == Free_Blobs(Pool, Blobs)
       IN  blob' = s.blob /\ FreeBlobs' = s.FreeBlobs
    /\ pc' = "freed"
    /\ UNCHANGED <<Width, Height, InputMap, DensityMap, nBlobs, Blobs, ColBlobs, Y,
                   AddrHi, created, fwd>>
    /\ UNCHANGED loopVars
    /\ UNCHANGED <<bgmVars, densVars, runVars>>

\* N += Step; the next frame's density map, of the same size
Next_Frame ==
    /\ pc = "freed" /\ N < MaxFrames
    /\ N' = N + 1
    /\ InputMap' \in [Positions -> DensityVals]
    /\ DensityMap' = InputMap'
    /\ pc' = "idle"
    /\ Marks' = {}
    /\ UNCHANGED <<Width, Height, blob, nBlobs, FreeBlobs, Blobs, ColBlobs, Y, AddrHi,
                   created, fwd>>
    /\ UNCHANGED <<bgmVars, densVars, runVars>>

FrameDims == {d \in Dims : d[1] * d[2] <= MaxFrameCells}

InitFrames == InitBlob(FrameDims, {0})

NextFrames == Enter \/ Scan_Row \/ Finish \/ Annotate \/ Release \/ Next_Frame

SpecFrames == InitFrames /\ [][NextFrames]_vars

\* the bytes of a frame buffer of the map's size
FrameBytes == 0 .. (3 * Width * Height - 1)

\* C18: every byte that Mark_Blob_CoM and Mark_Blob_BB write for a list
\* returned by Blob_Finder, on a frame of the map's size, is a byte of the
\* frame buffer.
C18_MarksInsideFrame ==
    pc = "marked" => Marks \subseteq FrameBytes

\* the list the scan holds or has returned and the driver has not yet released
Held == IF pc \in {"scan", "done", "marked"} THEN ActiveList ELSE <<>>

\* C19: in the frame loop every allocated blob is on exactly one of the
\* scan's list and the free list, once; when Blob_Finder is about to run, and
\* after Free_Blobs, every blob ever allocated is on the free list.
C19_BlobsReleasedPerFrame ==
    /\ NoRepeat(Held) /\ NoRepeat(FreeBlobList)
    /\ Range(Held) \cap FreeBlobSet = {}
    /\ Range(Held) \cup FreeBlobSet = 1 .. nBlobs
    /\ Range(created) \subseteq 1 .. nBlobs
    /\ pc \in {"idle", "freed"} => FreeBlobSet = 1 .. nBlobs
    /\ pc # "fault"

\* the second frame's list, of two blobs taken from the free list again, has
\* been released
C19_Witness ==
    /\ N = 2 /\ pc = "freed"
    /\ Len(ActiveList) >= 2
    /\ \E i, j \in DOMAIN created : i < j /\ created[i] = created[j]
    /\ FreeBlobSet = 1 .. nBlobs

\* the sum of the x (or y) coordinates of the positions of C
RECURSIVE CoordSum(_, _)
CoordSum(C, axis) ==
    IF C = {} THEN 0
    ELSE LET I == CHOOSE I \in C : TRUE
         IN  (IF axis = "x" THEN XOf(I) ELSE YOf(I)) + CoordSum(C \ {I}, axis)

\* C20: the blobs Blob_Finder returns correspond one to one to the
\* 4-connected components of the cells with density >= Bth: every returned
\* blob is registered in a component whose size, bounding box and coordinate
\* sums it holds, no two blobs belong to the same component, and every
\* component has its blob.
C20_BlobsAreComponents ==
    pc = "done" =>
        LET of == [h \in ActiveSet |->
                     IF RegPos(blob[h]) \in Worthy THEN Component(RegPos(blob[h])) ELSE {}]
        IN  /\ NoRepeat(ActiveList)
            /\ \A h \in ActiveSet :
                  /\ blob[h].FP = NULL
                  /\ of[h] # {}
                  /\ BoxIs(blob[h], of[h])
                  /\ blob[h].Xsum = CoordSum(of[h], "x")
                  /\ blob[h].Ysum = CoordSum(of[h], "y")
            /\ \A h1, h2 \in ActiveSet : of[h1] = of[h2] => h1 = h2
            /\ {of[h] : h \in ActiveSet} = Components

\* two components, one of them grown from two blobs merged on a later row
C20_Witness ==
    /\ pc = "done"
    /\ Cardinality(Components) = 2
    /\ Len(ActiveList) = 2
    /\ Len(created) >= 3
    /\ \E h \in ActiveSet : blob[h].Count >= 5 /\ blob[h].Xsum >= 5

(***************************************************************************)
(* The library calls of mmm.c one at a time, as a client other than the    *)
(* frame drivers may make them: Create_Initial_BGM, then Ratio_Match_Pixel, *)
(* Add_Cell and Decimate_BGM in any order, all with the run's Epsilon and  *)
(* Cth.  Every call is entered in Calls with the memory it started from:   *)
(* [op, I (the slot), P (the pixel or frame passed in), Before, Result].   *)
(***************************************************************************)
Lib_Log(m, Frm, flt, call) ==
    /\ Len(Calls) < MaxCalls
    /\ BGM' = m.BGM
    /\ cell' = m.cell
    /\ nCells' = m.nCells
    /\ FreeCells' = m.FreeCells
    /\ FB' = Frm
    /\ fault' = flt
    /\ Calls' = Append(Calls, call)
    /\ UNCHANGED <<Eps, Thr>>
    /\ UNCHANGED <<blobVars, densVars, loopVars>>

\* BGM = Create_Initial_BGM(FB)
Lib_Create ==
    /\ ~Created
    /\ \E Frm \in Frames :
         LET m == Create_Loop(Mem, Frm, 0)
         IN  Lib_Log(m, Frm, FALSE, [op |-> "create", I |-> 0, P |-> Frm,
                                     Before |-> Mem, Result |-> NULL])
    /\ UNCHANGED Freed

\* Result = Ratio_Match_Pixel(P, BGM[I], Epsilon)
Lib_Match ==
    /\ Created /\ ~fault
    /\ \E I \in Sets, P \in Pixels :
         LET r == Ratio_Match_Pixel(cell, P, BGM[I], Eps)
         IN  Lib_Log([Mem EXCEPT !.cell = r.cell], FB, r.fault,
                     [op |-> "match", I |-> I, P |-> P, Before |-> Mem,
                      Result |-> r.Result])
    /\ UNCHANGED Freed

\* Result = Add_Cell(P, BGM[I], Cth)
Lib_Add ==
    /\ Created /\ ~fault
    /\ \E I \in Sets, P \in Pixels :
         LET a == Add_Cell(Mem, P, BGM[I], Thr)
         IN  Lib_Log(a.m, FB, FALSE,
                     [op |-> "add", I |-> I, P |-> P, Before |-> Mem,
                      Result |-> a.Result])
    /\ UNCHANGED Freed

\* Result = Decimate_BGM(BGM, Cth, NumSets)
Lib_Decimate ==
    /\ Created /\ ~fault
    /\ LET m == Decimate_Loop([cell |-> cell, nCells |-> nCells,
                               FreeCells |-> FreeCells, BGM |-> BGM,
                               Freed |-> 0], 0, Thr)
       IN  /\ Lib_Log(m, FB, FALSE,
                      [op |-> "decimate", I |-> 0, P |-> FB, Before |-> Mem,
                       Result |-> m.Freed])
           /\ Freed' = m.Freed

NextLib == Lib_Create \/ Lib_Match \/ Lib_Add \/ Lib_Decimate

SpecLib == InitRun /\ [][NextLib]_vars

\* the call made last and the memory it started from
LastCall == Calls[Len(Calls)]
Called(op) == Len(Calls) >= 1 /\ LastCall.op = op

\* the values of a cell, without its list linkage
Vals(c) == [R |-> c.R, G |-> c.G, B |-> c.B, Count |-> c.Count]

\* the values of cell c after Decimate_BGM(.., Cth, ..) has visited it
Decimated(c, Cth) ==
    IF c.Count >= Cth
    THEN [R |-> c.R \div 2, G |-> c.G \div 2, B |-> c.B \div 2, Count |-> c.Count \div 2]
    ELSE Vals(c)

\* the cells of slot I that a Decimate_BGM call starting from memory b leaves
\* in the slot: those whose Count is at least Cth after the halving, or, if
\* there is none, the cell reached last, the only cell of the slot by then
Survivors(b, I, Cth) ==
    LET set0 == SetOf(b, I)
        Stays(h) == Decimated(b.cell[h], Cth).Count >= Cth
        keep == SelectSeq(set0, Stays)
    IN  IF keep = <<>> THEN <<set0[Len(set0)]>> ELSE keep

C22_AddCellAppendsOrRecycles ==
    Called("add") =>
        LET b == LastCall.Before
            I == LastCall.I
            P == LastCall.P
            set0 == SetOf(b, I)
            tail == set0[Len(set0)]
            New == LastCall.Result
        IN  IF b.cell[tail].Count >= Thr
            THEN /\ New \notin LiveCells(b)
                 /\ SetOf(Mem, I) = Append(set0, New)
                 /\ Vals(cell[New]) = [R |-> P.R, G |-> P.G, B |-> P.B, Count |-> 1]
                 /\ \A h \in LiveCells(b) : Vals(cell[h]) = Vals(b.cell[h])
            ELSE /\ New = tail
                 /\ SetOf(Mem, I) = set0
                 /\ Vals(cell[tail]) = [R |-> P.R, G |-> P.G, B |-> P.B, Count |-> 1]
                 /\ \A h \in LiveCells(b) \ {tail} : cell[h] = b.cell[h]

\* a two-cell set with an unproven tail that the call recycled for another
\* colour, under a proven head
C22_Witness ==
    /\ Called("add")
    /\ LET b == LastCall.Before
           set0 == SetOf(b, 0)
       IN  /\ Len(set0) = 2
           /\ b.cell[set0[2]].Count < Thr
           /\ b.cell[set0[1]].Count >= Thr
           /\ Thr = 3
           /\ Vals(b.cell[set0[2]]) # Vals(cell[set0[2]])
           /\ cell[set0[2]].Count = 1
           /\ Len(SetOf(Mem, 0)) = 2

\* cell h of memory b is within Epsilon of P on all three channels
Qualifies(b, h, P) == b.cell[h].Count # 0 /\ Within(P, b.cell[h], Eps)

\* C23: Ratio_Match_Pixel returns the first cell in list order whose truncated
\* mean is within Epsilon of the pixel on all three channels, whether or not a
\* later cell is closer; it adds the pixel to that cell's sums, increments that
\* cell's Count and changes no other cell.  When no cell qualifies it returns
\* none and leaves every cell unchanged.  (Stated for the calls that find a
\* mean for every cell they visit: no visited cell has Count 0.)
C23_FirstMatchWins ==
    (Called("match") /\ ~fault) =>
        LET b == LastCall.Before
            P == LastCall.P
            set0 == SetOf(b, LastCall.I)
            Hit == LastCall.Result
        IN  /\ Hit # NULL =>
                  /\ \E k \in DOMAIN set0 :
                        /\ set0[k] = Hit
                        /\ Qualifies(b, Hit, P)
                        /\ \A j \in 1 .. (k - 1) : ~Qualifies(b, set0[j], P)
                  /\ cell[Hit] = [b.cell[Hit] EXCEPT !.R = @ + P.R, !.G = @ + P.G,
                                                      !.B = @ + P.B, !.Count = @ + 1]
                  /\ \A h \in DOMAIN b.cell \ {Hit} : cell[h] = b.cell[h]
            /\ Hit = NULL =>
                  /\ \A k \in DOMAIN set0 : ~Qualifies(b, set0[k], P)
                  /\ cell = b.cell
            /\ <<BGM, nCells, FreeCells>> = <<b.BGM, b.nCells, b.FreeCells>>

\* the head was returned although the second cell's mean is the pixel itself
\* and the head's mean is not
C23_Witness ==
    /\ Called("match") /\ ~fault
    /\ LET b == LastCall.Before
           P == LastCall.P
           set0 == SetOf(b, 0)
       IN  /\ Len(set0) = 2
           /\ LastCall.Result = set0[1]
           /\ MeanOf(b.cell[set0[1]]) # P
           /\ b.cell[set0[2]].Count # 0
           /\ MeanOf(b.cell[set0[2]]) = P
           /\ cell[set0[1]].Count = b.cell[set0[1]].Count + 1
           /\ cell[set0[2]] = b.cell[set0[2]]

\* C27: in a run that uses one Cth in every call, after any sequence of
\* Ratio_Match_Pixel, Add_Cell and Decimate_BGM calls on a model built by
\* Create_Initial_BGM, every cell that is not the tail of its slot's list has
\* Count >= Cth: a slot has at most one unproven cell, and it is the tail.
C27_OnlyTailUnproven ==
    Created =>
        \A I \in Sets :
            LET set == SetOf(Mem, I)
            IN  \A k \in 1 .. (Len(set) - 1) : cell[set[k]].Count >= Thr

\* Add_Cell has put an unproven tail behind a head that earlier matches had
\* proven against a Cth of 2
C27_Witness ==
    /\ Called("add") /\ Thr = 2
    /\ \E k \in DOMAIN Calls : Calls[k].op = "match"
    /\ LET set == SetOf(Mem, 0)
       IN  /\ Len(set) = 2
           /\ cell[set[1]].Count >= Thr
           /\ cell[set[2]].Count < Thr

\* x is a value an 8-bit pixel channel holds
IsChannel(x) == x >= 0 /\ x <= 255

\* C26: after any sequence of Create_Initial_BGM, Ratio_Match_Pixel, Add_Cell
\* and Decimate_BGM calls with 8-bit pixels, the mean sum / Count of every live
\* cell lies in 0 .. 255 on every channel, so that the background estimate fits
\* a pixel channel.  (Read on the cells that have a mean: Count > 0.)
C26_MeanFitsChannel ==
    Created =>
        \A h \in LiveCells(Mem) :
            cell[h].Count > 0 =>
                /\ IsChannel(MeanOf(cell[h]).R)
                /\ IsChannel(MeanOf(cell[h]).G)
                /\ IsChannel(MeanOf(cell[h]).B)

\* C24: for every Width >= 1, Height >= 1 and WheelSize >= 1, frames narrower
\* than WheelSize / 2 included, Horizontal_Image_Density writes every index of
\* the density map in 0 .. Width * Height - 1 exactly once and writes no index
\* outside the map.
C24_HorizontalWritesOnce ==
    /\ dpc # "horizontal fault"
    /\ dpc = "horizontal" => \A I \in DOMAIN DWrites : DWrites[I] = 1

\* C25: for every frame and every WheelSize >= 1, Area_Image_Density reads and
\* writes its arrays Wheels[] and Sums[], each of Height elements, at indices
\* in 0 .. Height - 1 only, the WheelSize / 2 extra steps past the last row
\* included.
C25_RowArraysInBounds ==
    dpc \in {"area", "area fault"} => DStray = {}

\* following FP from blob h reaches a blob without FP in at most fuel steps
RECURSIVE FP_Ends(_, _)
FP_Ends(h, fuel) ==
    IF blob[h].FP = NULL THEN TRUE
    ELSE IF fuel = 0 THEN FALSE
    ELSE FP_Ends(blob[h].FP, fuel - 1)

RECURSIVE Finder_Rows(_, _)
Finder_Rows(s, Y0) ==
    IF Y0 >= Height THEN s
    ELSE Finder_Rows(Reap_Expired_Blobs(Row_Loop([s EXCEPT !.RowBlob = NULL], 0, Y0, FALSE),
                                        Y0), Y0 + 1)

\* Blob_Finder(map, Width, Height, Bth) on an empty pool: the pool and the
\* returned list
Blob_Finder(map) ==
    LET s0 == [blob |-> <<>>, nBlobs |-> 0, FreeBlobs |-> NULL, Blobs |-> NULL,
               RowBlob |-> NULL, ColBlobs |-> [X0 \in 0 .. (Width - 1) |-> NULL],
               DensityMap |-> map, created |-> <<>>,
               fwd |-> [Merges |-> <<>>, RowStubs |-> {}]]
        s1 == Reap_FP_Blobs(Finder_Rows(s0, 0))
    IN  [s1 EXCEPT !.blob = Number_Blobs(@, s1.Blobs, 1)]

\* what a caller reads from a returned list: the blobs in list order, each with
\* its ID, bounding box, sums, Count and registration point
Returned(s) ==
    LET list == BlobChain(s, s.Blobs, s.nBlobs)
    IN  [i \in DOMAIN list |->
            LET b == s.blob[list[i]]
            IN  [ID |-> b.ID, Xmin |-> b.Xmin, Ymin |-> b.Ymin, Xmax |-> b.Xmax,
                 Ymax |-> b.Ymax, Xsum |-> b.Xsum, Ysum |-> b.Ysum, Count |-> b.Count,
                 Xreg |-> b.Xreg, Yreg |-> b.Yreg]]

\* C29: for every density map, Width and Height, the list Blob_Finder_Map
\* returns is the list Blob_Finder returns for the same map: as many blobs, in
\* the same order, with the same ID, bounding box, Xsum, Ysum, Count and
\* registration point.
C29_MapFinderSameList ==
    pc = "done" =>
        Returned([blob |-> blob, nBlobs |-> nBlobs, Blobs |-> Blobs])
            = Returned(Blob_Finder(InputMap))

\* Blob_Finder_Map has returned two blobs after three merges on a map on which
\* Blob_Finder takes a reaped Blob object into use again, which
\* Blob_Finder_Map, reaping at its end only, never does
C29_Witness ==
    /\ pc = "done"
    /\ Len(ActiveList) = 2
    /\ Len(fwd.Merges) >= 3
    /\ Cardinality(Range(created)) = Len(created)
    /\ LET r == Blob_Finder(InputMap)
       IN  /\ Len(Returned(r)) = 2
           /\ Cardinality(Range(r.created)) < Len(r.created)

\* the frame with rows and columns exchanged: pixel (x, y) becomes pixel (y, x)
Transpose(fb) ==
    [Width |-> fb.Height, Height |-> fb.Width,
     Frm |-> [J \in 0 .. (fb.Width * fb.Height - 1) |->
                 fb.Frm[(J % fb.Height) * fb.Width + J \div fb.Height]]]

\* C30: for every frame with Height >= WheelSize / 2 and every WheelSize, the
\* map Vertical_Image_Density produces is the transpose of the map
\* Horizontal_Image_Density produces on the transposed frame: both stay inside
\* the map, and position (x, y) of the one holds what position (y, x) of the
\* other holds.
C30_VerticalIsTransposedHorizontal ==
    (dpc \in {"vertical", "vertical fault"} /\ DFB.Height >= WheelSize \div 2) =>
        LET H == Horizontal_Scan(Transpose(DFB), WheelSize)
        IN  /\ dpc = "vertical" /\ ~H.fault
            /\ \A I \in DOMAIN DMap :
                  /\ DMap[I] = H.Map[ColOf(I) * DFB.Height + RowOf(I)]
                  /\ DWrites[I] = H.Writes[ColOf(I) * DFB.Height + RowOf(I)]

\* a 2 x 4 frame, not all of one colour, scanned with a wheel of 3: the columns
\* fill the window in their middle and the map is not what the horizontal scan
\* of the frame itself gives
C30_Witness ==
    /\ dpc = "vertical" /\ WheelSize = 3
    /\ DFB.Width = 2 /\ DFB.Height = 4
    /\ \E I \in DOMAIN DMap : DMap[I] = 3
    /\ \E I \in DOMAIN DMap : DMap[I] = 0
    /\ DMap # Horizontal_Scan(DFB, WheelSize).Map

====
